---------------------------- MODULE Spec2Model ----------------------------
(***************************************************************************)
(* A model of cooked, a rendering reverse proxy: the host allowlist, the   *)
(* SSRF classifier and its two uses (pre-fetch check, dial-time guard),    *)
(* the fetch client's redirect policy, the TTL + LRU cache, the cached     *)
(* fetcher's hit / miss / revalidate / stale machine and the render        *)
(* handler that drives them.                                               *)
(*                                                                         *)
(* Text is modelled as a sequence of lexemes: one-character strings for    *)
(* host names, and one lexeme for the text of an IP address, of a CIDR     *)
(* range or of a port number.  An IP address is its byte sequence (4 or 16 *)
(* bytes), as in Go's net.IP.                                              *)
(***************************************************************************)
EXTENDS Integers, Sequences, FiniteSets, TLC

VARIABLES
    allowRaw,   \* cfg.AllowedUpstreams: the configured entries, in order
    ssrfOn,     \* the fetch client's ssrfProtection option, as New built it
    dns,        \* what the resolver answers now: name -> sequence of IPs (<<>> = failure)
    now,        \* the cache's clock
    items,      \* Cache.items: key -> id of the cacheItem (0 = absent)
    order,      \* Cache.order: keys, most recently used first
    heap,       \* the cacheItem structs ever allocated: id -> Entry
    curSize,    \* Cache.curSize
    req,        \* the requests: id -> the handler's position and locals
    sent,       \* every upstream HTTP request issued so far
    conns,      \* every TCP connection opened so far
    fnIn,       \* input of the pure function under test
    fnOut       \* its result ("none" before it ran)

vars == <<allowRaw, ssrfOn, dns, now, items, order, heap, curSize, req, sent, conns, fnIn, fnOut>>

-----------------------------------------------------------------------------
(* Bounds of the model. *)

\* Host names tried against the allowlist are all the lexeme sequences up to this length.
MaxHostLen == 4

\* cfg.CacheTTL, in ticks of the cache's clock.
CacheTTL == 1

\* cfg.CacheMaxSize, in the unit page lengths are counted in.
CacheMaxSize == 2

\* The clock stops here.
MaxTime == 3

\* Upstream bodies are 1..MaxBody; the page rendered from body b is b units long.
MaxBody == 2

\* Requests of the cache specification.
NumReq == 2

\* cfg.MaxFileSize, in bytes.
MaxFileSize == 2

\* The longest href/src value, in lexemes.
MaxHrefLen == 4

\* The longest request path, in lexemes after its leading slash.
MaxPathLen == 5

-----------------------------------------------------------------------------
(* Strings. *)

\* strings.HasSuffix
HasSuffix(s, suf) ==
    /\ Len(s) >= Len(suf)
    /\ SubSeq(s, Len(s) - Len(suf) + 1, Len(s)) = suf

\* strings.HasPrefix
HasPrefix(s, pre) ==
    /\ Len(s) >= Len(pre)
    /\ SubSeq(s, 1, Len(pre)) = pre

LowerChar(c) ==
    CASE c = "A" -> "a"
      [] c = "B" -> "b"
      [] c = "C" -> "c"
      [] OTHER -> c

\* strings.ToLower
ToLower(s) == [i \in 1..Len(s) |-> LowerChar(s[i])]

\* strings.Contains for a one-lexeme needle
ContainsLexeme(s, c) == \E i \in 1..Len(s) : s[i] = c

\* All sequences over S of length at most n.
RECURSIVE SeqsUpTo(_, _)
SeqsUpTo(S, n) ==
    IF n = 0 THEN {<<>>}
    ELSE LET shorter == SeqsUpTo(S, n - 1)
         IN  shorter \cup {Append(s, c) : s \in {t \in shorter : Len(t) = n - 1}, c \in S}

-----------------------------------------------------------------------------
(* IP addresses: net.IP, net.ParseIP, net.IPNet. *)

Zeros(n) == [i \in 1..n |-> 0]

\* The text of the addresses the model uses, and what net.ParseIP makes of each.
IPText ==
    [t \in {"127.0.0.1", "10.0.0.1", "172.16.0.1", "192.168.1.1", "100.64.0.1",
            "169.254.169.254", "8.8.8.8", "11.0.0.1", "100.128.0.0", "172.32.0.1",
            "::1", "fd00::1", "2606:4700::1", "::ffff:10.0.0.1"} |->
        CASE t = "127.0.0.1"       -> <<127, 0, 0, 1>>
          [] t = "10.0.0.1"        -> <<10, 0, 0, 1>>
          [] t = "172.16.0.1"      -> <<172, 16, 0, 1>>
          [] t = "192.168.1.1"     -> <<192, 168, 1, 1>>
          [] t = "100.64.0.1"      -> <<100, 64, 0, 1>>
          [] t = "169.254.169.254" -> <<169, 254, 169, 254>>
          [] t = "8.8.8.8"         -> <<8, 8, 8, 8>>
          [] t = "11.0.0.1"        -> <<11, 0, 0, 1>>
          [] t = "100.128.0.0"     -> <<100, 128, 0, 0>>
          [] t = "172.32.0.1"      -> <<172, 32, 0, 1>>
          [] t = "::1"             -> Zeros(15) \o <<1>>
          [] t = "fd00::1"         -> <<253, 0>> \o Zeros(13) \o <<1>>
          [] t = "2606:4700::1"    -> <<38, 6, 71, 0>> \o Zeros(11) \o <<1>>
          [] t = "::ffff:10.0.0.1" -> Zeros(10) \o <<255, 255, 10, 0, 0, 1>>]

V4Texts == {t \in DOMAIN IPText : Len(IPText[t]) = 4}
V6Texts == {t \in DOMAIN IPText : Len(IPText[t]) = 16}

NoIP == <<>>

\* net.ParseIP: the whole string must be the text of one address; brackets,
\* a port or any other character around it make it fail.
ParseIP(s) ==
    IF Len(s) = 1 /\ s[1] \in DOMAIN IPText THEN IPText[s[1]] ELSE NoIP

\* net.IP.To4: the 4-byte form of an IPv4 or IPv4-mapped address, else nil.
To4(ip) ==
    IF Len(ip) = 4 THEN ip
    ELSE IF /\ Len(ip) = 16
            /\ \A i \in 1..10 : ip[i] = 0
            /\ ip[11] = 255 /\ ip[12] = 255
         THEN SubSeq(ip, 13, 16)
         ELSE NoIP

IsLoopback(ip) ==
    IF To4(ip) # NoIP THEN To4(ip)[1] = 127
    ELSE ip = Zeros(15) \o <<1>>

IsPrivate(ip) ==
    IF To4(ip) # NoIP
    THEN LET q == To4(ip)
         IN  \/ q[1] = 10
             \/ q[1] = 172 /\ q[2] \div 16 = 1
             \/ q[1] = 192 /\ q[2] = 168
    ELSE Len(ip) = 16 /\ ip[1] \div 2 = 126

IsLinkLocalUnicast(ip) ==
    IF To4(ip) # NoIP THEN To4(ip)[1] = 169 /\ To4(ip)[2] = 254
    ELSE Len(ip) = 16 /\ ip[1] = 254 /\ ip[2] \div 64 = 2

IsLinkLocalMulticast(ip) ==
    IF To4(ip) # NoIP THEN To4(ip)[1] = 224 /\ To4(ip)[2] = 0 /\ To4(ip)[3] = 0
    ELSE Len(ip) = 16 /\ ip[1] = 255 /\ ip[2] % 16 = 2

IsUnspecified(ip) == ip = Zeros(4) \/ ip = Zeros(16)

IsMulticast(ip) ==
    IF To4(ip) # NoIP THEN To4(ip)[1] \div 16 = 14
    ELSE Len(ip) = 16 /\ ip[1] = 255

\* net.IPNet.Contains: same family after To4, and the masked bytes agree.
CIDRContains(cidr, ip0) ==
    LET ip == IF To4(ip0) # NoIP THEN To4(ip0) ELSE ip0
        nn == IF To4(cidr.ip) # NoIP THEN To4(cidr.ip) ELSE cidr.ip
        keep(i) == \* how many leading bits of byte i the mask keeps
            IF cidr.bits >= 8 * i THEN 8
            ELSE IF cidr.bits <= 8 * (i - 1) THEN 0
            ELSE cidr.bits - 8 * (i - 1)
    IN  /\ Len(ip) = Len(nn)
        /\ \A i \in 1..Len(ip) :
              ip[i] \div (2 ^ (8 - keep(i))) = nn[i] \div (2 ^ (8 - keep(i)))

cgnatRange == [ip |-> <<100, 64, 0, 0>>, bits |-> 10]

\* ssrf.IsBlockedIP
IsBlockedIP(ip) ==
    \/ IsLoopback(ip)
    \/ IsPrivate(ip)
    \/ IsLinkLocalUnicast(ip)
    \/ IsLinkLocalMulticast(ip)
    \/ IsUnspecified(ip)
    \/ IsMulticast(ip)
    \/ CIDRContains(cgnatRange, ip)


-----------------------------------------------------------------------------
(* host:port strings: net.SplitHostPort, net.JoinHostPort, url.URL.Hostname. *)

PortText == "8080"

\* A lexeme that holds a ':' byte.
HasColon(c) == c = ":" \/ c \in V6Texts

FirstIndex(s, c) ==
    IF ContainsLexeme(s, c)
    THEN CHOOSE i \in 1..Len(s) : s[i] = c /\ \A j \in 1..(i - 1) : s[j] # c
    ELSE 0

\* Position of the lexeme holding the last ':' byte, 0 if there is none.
LastColon(s) ==
    IF \E i \in 1..Len(s) : HasColon(s[i])
    THEN CHOOSE i \in 1..Len(s) : HasColon(s[i]) /\ \A j \in (i + 1)..Len(s) : ~HasColon(s[j])
    ELSE 0

\* net.SplitHostPort: [ok, host]; every error of the original is ok = FALSE.
SplitHostPort(hp) ==
    LET p   == LastColon(hp)
        end == FirstIndex(hp, "]")
        bad == [ok |-> FALSE, host |-> <<>>]
    IN  IF p = 0 THEN bad                           \* missing port
        ELSE IF hp[1] = "["
        THEN IF end = 0 THEN bad                    \* missing ']'
             ELSE IF end = Len(hp) THEN bad         \* missing port
             ELSE IF ~(p = end + 1 /\ hp[p] = ":") THEN bad
             ELSE IF ContainsLexeme(SubSeq(hp, 2, Len(hp)), "[") THEN bad
             ELSE IF ContainsLexeme(SubSeq(hp, end + 1, Len(hp)), "]") THEN bad
             ELSE [ok |-> TRUE, host |-> SubSeq(hp, 2, end - 1)]
        ELSE IF hp[p] # ":" THEN bad                \* the last ':' is inside an IPv6 text
        ELSE IF \E j \in 1..(p - 1) : HasColon(hp[j]) THEN bad  \* too many colons
        ELSE IF ContainsLexeme(hp, "[") \/ ContainsLexeme(hp, "]") THEN bad
        ELSE [ok |-> TRUE, host |-> SubSeq(hp, 1, p - 1)]

\* net.JoinHostPort
JoinHostPort(host, port) ==
    IF \E i \in 1..Len(host) : HasColon(host[i])
    THEN <<"[">> \o host \o <<"]", ":", port>>
    ELSE host \o <<":", port>>

\* url.URL.Hostname: drop a valid trailing port, then one pair of brackets.
URLHostname(host) ==
    LET n == Len(host)
        h == IF n >= 2 /\ host[n - 1] = ":" /\ host[n] = PortText
             THEN SubSeq(host, 1, n - 2) ELSE host
    IN  IF Len(h) >= 2 /\ h[1] = "[" /\ h[Len(h)] = "]"
        THEN SubSeq(h, 2, Len(h) - 1) ELSE h

\* The "strip port if present" idiom of Allows and IsPrivateAddress: the host
\* part when net.SplitHostPort succeeds, else the string as it is.
StripPort(host) ==
    IF SplitHostPort(host).ok THEN SplitHostPort(host).host ELSE host

-----------------------------------------------------------------------------
(* The resolver. *)

IP(t) == IPText[t]

\* net.LookupIP / Resolver.LookupIPAddr under answers d: the address itself
\* for an IP text, the resolver's answer for a name, <<>> for an error.
LookupIP(d, host) ==
    IF ParseIP(host) # NoIP THEN <<ParseIP(host)>>
    ELSE IF ToLower(host) \in DOMAIN d THEN d[ToLower(host)]
    ELSE <<>>

-----------------------------------------------------------------------------
(* The allowlist. *)

CIDRText ==
    [t \in {"10.0.0.0/8", "172.16.0.0/12", "127.0.0.0/8", "fd00::/8", "10.0.0.0/33"} |->
        CASE t = "10.0.0.0/8"    -> [ok |-> TRUE, ip |-> <<10, 0, 0, 0>>, bits |-> 8]
          [] t = "172.16.0.0/12" -> [ok |-> TRUE, ip |-> <<172, 16, 0, 0>>, bits |-> 12]
          [] t = "127.0.0.0/8"   -> [ok |-> TRUE, ip |-> <<127, 0, 0, 0>>, bits |-> 8]
          [] t = "fd00::/8"      -> [ok |-> TRUE, ip |-> <<253>> \o Zeros(15), bits |-> 8]
          [] t = "10.0.0.0/33"   -> [ok |-> FALSE, ip |-> <<>>, bits |-> 0]]

\* strings.Contains(entry, "/")
HasSlash(entry) == \E i \in 1..Len(entry) : entry[i] \in DOMAIN CIDRText \/ entry[i] = "/"

\* net.ParseCIDR
ParseCIDR(entry) ==
    IF Len(entry) = 1 /\ entry[1] \in DOMAIN CIDRText
    THEN CIDRText[entry[1]]
    ELSE [ok |-> FALSE, ip |-> <<>>, bits |-> 0]

\* ParseAllowlist.  raw is cfg.AllowedUpstreams split at its commas, each
\* entry trimmed; raw = <<>> is the empty string.
ParseAllowlist(raw) ==
    IF raw = <<>>
    THEN [nil |-> TRUE, cidrs |-> <<>>, wildcards |-> <<>>, exact |-> <<>>]
    ELSE LET isCIDR(e)  == e # <<>> /\ HasSlash(e)
             isWild(e)  == e # <<>> /\ ~HasSlash(e) /\ HasPrefix(e, <<"*", ".">>)
             isExact(e) == e # <<>> /\ ~HasSlash(e) /\ ~HasPrefix(e, <<"*", ".">>)
             okCIDR(e)  == isCIDR(e) /\ ParseCIDR(e).ok
             cs == SelectSeq(raw, okCIDR)
             ws == SelectSeq(raw, isWild)
             es == SelectSeq(raw, isExact)
         IN  [nil       |-> FALSE,
              cidrs     |-> [i \in 1..Len(cs) |-> [ip |-> ParseCIDR(cs[i]).ip, bits |-> ParseCIDR(cs[i]).bits]],
              wildcards |-> [i \in 1..Len(ws) |-> ToLower(SubSeq(ws[i], 2, Len(ws[i])))],
              exact     |-> [i \in 1..Len(es) |-> ToLower(es[i])]]

\* Allows with the subdomain test taken on the bare entry (prefix-string matching).
Allows_NoDot(a, host, d) ==
    IF a.nil THEN TRUE
    ELSE LET hostname == ToLower(StripPort(host))
             ip       == ParseIP(hostname)
             addrs    == LookupIP(d, hostname)
         IN  \/ \E i \in 1..Len(a.exact) :
                   hostname = a.exact[i] \/ HasSuffix(hostname, a.exact[i])
             \/ \E i \in 1..Len(a.wildcards) :
                   /\ HasSuffix(hostname, a.wildcards[i])
                   /\ hostname # SubSeq(a.wildcards[i], 2, Len(a.wildcards[i]))
             \/ /\ Len(a.cidrs) > 0
                /\ IF ip # NoIP
                   THEN \E i \in 1..Len(a.cidrs) : CIDRContains(a.cidrs[i], ip)
                   ELSE \E k \in 1..Len(addrs) : \E i \in 1..Len(a.cidrs) :
                           CIDRContains(a.cidrs[i], addrs[k])

\* Allowlist.Allows, under resolver answers d.  A resolver error is an empty
\* answer, which admits nothing.
Allows(a, host, d) ==
    IF a.nil THEN TRUE
    ELSE LET hostname == ToLower(StripPort(host))
             ip       == ParseIP(hostname)
             addrs    == LookupIP(d, hostname)
         IN  \/ \E i \in 1..Len(a.exact) :
                   hostname = a.exact[i] \/ HasSuffix(hostname, <<".">> \o a.exact[i])
             \/ \E i \in 1..Len(a.wildcards) :
                   /\ HasSuffix(hostname, a.wildcards[i])
                   /\ hostname # SubSeq(a.wildcards[i], 2, Len(a.wildcards[i]))
             \/ /\ Len(a.cidrs) > 0
                /\ IF ip # NoIP
                   THEN \E i \in 1..Len(a.cidrs) : CIDRContains(a.cidrs[i], ip)
                   ELSE \E k \in 1..Len(addrs) : \E i \in 1..Len(a.cidrs) :
                           CIDRContains(a.cidrs[i], addrs[k])

-----------------------------------------------------------------------------
(* Inputs of the pure-function specifications. *)

NameAlphabet == {"a", "b", ".", "B"}

\* A host as it appears in a URL: a name, an IPv4 text, a bracketed IPv6
\* text, each with or without a port; and the bare IPv6 text Allows is also
\* called with.
ProbeHosts ==
    {[kind |-> "name", text |-> n, port |-> p] :
        n \in SeqsUpTo(NameAlphabet, MaxHostLen), p \in BOOLEAN}
    \cup {[kind |-> "ip", text |-> <<t>>, port |-> p] : t \in V4Texts, p \in BOOLEAN}
    \cup {[kind |-> "ip", text |-> <<t>>, port |-> FALSE] : t \in V6Texts}
    \cup {[kind |-> "ip6b", text |-> <<t>>, port |-> p] : t \in V6Texts, p \in BOOLEAN}

\* The Host field of the URL (what url.Parse leaves in u.Host).
HostString(h) ==
    (IF h.kind = "ip6b" THEN <<"[">> \o h.text \o <<"]">> ELSE h.text)
        \o (IF h.port THEN <<":", PortText>> ELSE <<>>)

AllowChoices ==
    { <<>>,                                             \* "": no allowlist
      << <<>> >>,                                       \* " ": an allowlist with no entry
      << <<"b">> >>,
      << <<"a", ".", "b">>, <<"a">> >>,
      << <<"*", ".", "b">> >>,
      << <<"10.0.0.0/8">>, <<"172.16.0.0/12">> >>,
      << <<"fd00::/8">> >>,
      << <<"10.0.0.0/33">>, <<"b">> >>,
      << <<"*", ".", "B">>, <<"10.0.0.0/8">>, <<"A", ".", "b">> >> }

DNSTables ==
    { (<<"a", ".", "b">> :> <<IP("10.0.0.1")>>) @@ (<<"b">> :> <<IP("8.8.8.8")>>)
          @@ (<<"timeout", ".", "b">> :> <<IP("8.8.8.8")>>),
      (<<"a", ".", "b">> :> <<>>) @@ (<<"b">> :> <<IP("8.8.8.8"), IP("172.16.0.1")>>)
          @@ (<<"timeout", ".", "b">> :> <<IP("8.8.8.8")>>),
      (<<"a", ".", "b">> :> <<IP("8.8.8.8")>>) @@ (<<"b">> :> <<>>)
          @@ (<<"timeout", ".", "b">> :> <<>>) }

NoProbe == [kind |-> "none", text |-> <<>>, port |-> FALSE]

\* cache.New: an empty cache.
EmptyCache ==
    /\ items = <<>>
    /\ order = <<>>
    /\ heap = <<>>
    /\ curSize = 0
    /\ now = 0

NoTraffic ==
    /\ req = <<>>
    /\ sent = {}
    /\ conns = {}

-----------------------------------------------------------------------------
(* The cache: cache.Cache under its mutex.  A cache is the record          *)
(* [items, order, heap, curSize]; heap holds the cacheItem structs, so that *)
(* the *Entry a Get returns is an id into it.                              *)

StatusHit         == "hit"
StatusMiss        == "miss"
StatusRevalidated == "revalidated"
StatusExpired     == "expired"

TheCache == [items |-> items, order |-> order, heap |-> heap, curSize |-> curSize]

\* list.MoveToFront / list.PushFront on the list of keys
MoveToFront(ord, key) ==
    LET other(k) == k # key
    IN  <<key>> \o SelectSeq(ord, other)

\* Get that leaves the recency list alone on a hit.
Get_HitLeavesOrder(c, key, t) ==
    IF key \notin DOMAIN c.items
    THEN [status |-> StatusMiss, id |-> 0, order |-> c.order]
    ELSE IF t > c.heap[c.items[key]].expiresAt
    THEN [status |-> StatusExpired, id |-> c.items[key], order |-> c.order]
    ELSE [status |-> StatusHit, id |-> c.items[key], order |-> c.order]

\* Get that counts the lookup of an expired entry as a use.
Get_ExpiredMovesToFront(c, key, t) ==
    IF key \notin DOMAIN c.items
    THEN [status |-> StatusMiss, id |-> 0, order |-> c.order]
    ELSE IF t > c.heap[c.items[key]].expiresAt
    THEN [status |-> StatusExpired, id |-> c.items[key], order |-> MoveToFront(c.order, key)]
    ELSE [status |-> StatusHit, id |-> c.items[key], order |-> MoveToFront(c.order, key)]

\* Get with the expiry test taken as "not before" (an entry expires one tick early).
Get_ExpiresEarly(c, key, t) ==
    IF key \notin DOMAIN c.items
    THEN [status |-> StatusMiss, id |-> 0, order |-> c.order]
    ELSE IF t >= c.heap[c.items[key]].expiresAt
    THEN [status |-> StatusExpired, id |-> c.items[key], order |-> c.order]
    ELSE [status |-> StatusHit, id |-> c.items[key], order |-> MoveToFront(c.order, key)]

\* Cache.Get at clock reading t: the status, the id of the entry returned
\* (0 = nil) and the order list it leaves.
Get(c, key, t) ==
    IF key \notin DOMAIN c.items
    THEN [status |-> StatusMiss, id |-> 0, order |-> c.order]
    ELSE IF t > c.heap[c.items[key]].expiresAt
    THEN [status |-> StatusExpired, id |-> c.items[key], order |-> c.order]
    ELSE [status |-> StatusHit, id |-> c.items[key], order |-> MoveToFront(c.order, key)]

\* Cache.evict
RECURSIVE evict(_)
evict(c) ==
    IF c.curSize > CacheMaxSize /\ Len(c.order) > 0
    THEN LET oldest == c.order[Len(c.order)]
         IN  evict([c EXCEPT
                 !.curSize = c.curSize - c.heap[c.items[oldest]].size,
                 !.items   = [k \in DOMAIN c.items \ {oldest} |-> c.items[k]],
                 !.order   = SubSeq(c.order, 1, Len(c.order) - 1)])
    ELSE c

\* Put that, replacing an entry, does not take the old size off the total.
Put_OldSizeStays(c, key, entry, t) ==
    LET e     == [entry EXCEPT !.expiresAt = t + CacheTTL]
        fresh == CHOOSE i \in 1..(Cardinality(DOMAIN c.heap) + 1) : i \notin DOMAIN c.heap
    IN  IF key \in DOMAIN c.items
        THEN evict([c EXCEPT
                 !.curSize = c.curSize + e.size,
                 !.heap    = [c.heap EXCEPT ![c.items[key]] = e],
                 !.order   = MoveToFront(c.order, key)])
        ELSE evict([c EXCEPT
                 !.order   = <<key>> \o c.order,
                 !.items   = (key :> fresh) @@ c.items,
                 !.heap    = (fresh :> e) @@ c.heap,
                 !.curSize = c.curSize + e.size])

\* Put that keeps the entry a key already has.
Put_FirstStays(c, key, entry, t) ==
    LET e     == [entry EXCEPT !.expiresAt = t + CacheTTL]
        fresh == CHOOSE i \in 1..(Cardinality(DOMAIN c.heap) + 1) : i \notin DOMAIN c.heap
    IN  IF key \in DOMAIN c.items
        THEN evict([c EXCEPT !.order = MoveToFront(c.order, key)])
        ELSE evict([c EXCEPT
                 !.order   = <<key>> \o c.order,
                 !.items   = (key :> fresh) @@ c.items,
                 !.heap    = (fresh :> e) @@ c.heap,
                 !.curSize = c.curSize + e.size])

\* Put that leaves the expiry of an entry it replaces as it was.
Put_KeepsOldExpiry(c, key, entry, t) ==
    LET e     == [entry EXCEPT !.expiresAt = t + CacheTTL]
        fresh == CHOOSE i \in 1..(Cardinality(DOMAIN c.heap) + 1) : i \notin DOMAIN c.heap
    IN  IF key \in DOMAIN c.items
        THEN evict([c EXCEPT
                 !.curSize = c.curSize - c.heap[c.items[key]].size + e.size,
                 !.heap    = [c.heap EXCEPT ![c.items[key]] =
                                  [e EXCEPT !.expiresAt = c.heap[c.items[key]].expiresAt]],
                 !.order   = MoveToFront(c.order, key)])
        ELSE evict([c EXCEPT
                 !.order   = <<key>> \o c.order,
                 !.items   = (key :> fresh) @@ c.items,
                 !.heap    = (fresh :> e) @@ c.heap,
                 !.curSize = c.curSize + e.size])

\* Cache.Put at clock reading t
Put(c, key, entry, t) ==
    LET e     == [entry EXCEPT !.expiresAt = t + CacheTTL]
        fresh == CHOOSE i \in 1..(Cardinality(DOMAIN c.heap) + 1) : i \notin DOMAIN c.heap
    IN  IF key \in DOMAIN c.items
        THEN evict([c EXCEPT
                 !.curSize = c.curSize - c.heap[c.items[key]].size + e.size,
                 !.heap    = [c.heap EXCEPT ![c.items[key]] = e],
                 !.order   = MoveToFront(c.order, key)])
        ELSE evict([c EXCEPT
                 !.order   = <<key>> \o c.order,
                 !.items   = (key :> fresh) @@ c.items,
                 !.heap    = (fresh :> e) @@ c.heap,
                 !.curSize = c.curSize + e.size])

\* RefreshTTL that leaves the expiry as it was.
RefreshTTL_KeepsExpiry(c, key, t) ==
    IF key \in DOMAIN c.items
    THEN [c EXCEPT !.order = MoveToFront(c.order, key)]
    ELSE c

\* Cache.RefreshTTL at clock reading t
RefreshTTL(c, key, t) ==
    IF key \in DOMAIN c.items
    THEN [c EXCEPT !.heap  = [c.heap EXCEPT ![c.items[key]].expiresAt = t + CacheTTL],
                   !.order = MoveToFront(c.order, key)]
    ELSE c

\* The cacheItem structs something still points to: the map's, and those a
\* request holds an *Entry into.  The rest is garbage.
Reachable(h, its, rq) ==
    [i \in ({its[k] : k \in DOMAIN its} \cup {rq[r].ref : r \in DOMAIN rq}) \ {0} |-> h[i]]

\* The cache becomes c (req' is the requests' new state).
SetCache(c) ==
    /\ items' = c.items
    /\ order' = c.order
    /\ curSize' = c.curSize
    /\ heap' = Reachable(c.heap, c.items, req')

-----------------------------------------------------------------------------
(* Requests, upstream answers, responses. *)

\* fetch.maxRedirects
maxRedirects == 5

NoURL      == [scheme |-> "", host |-> NoProbe, ext |-> ""]
NoTarget   == [scheme |-> "", host |-> <<>>]
NoCond     == [etag |-> "", lastModified |-> ""]
NoResult   == [kind |-> "none", code |-> 0, body |-> 0, etag |-> "", lastModified |-> "",
               words |-> {}, op |-> "", url |-> <<>>, html |-> FALSE]
NoPage     == [body |-> 0, cacheStatus |-> "", stages |-> <<>>, raw |-> FALSE]
NoResponse == [status |-> 0, errType |-> "", cache |-> "", contentType |-> "",
               upstreamStatus |-> 0, page |-> NoPage, headers |-> {}]

\* The headers setResponseHeaders sets.
SecurityHeaders == {"X-Content-Type-Options", "Referrer-Policy", "X-Frame-Options"}
CookedHeaders ==
    {"X-Cooked-Version", "X-Cooked-Upstream", "X-Cooked-Upstream-Status", "X-Cooked-Cache",
     "X-Cooked-Content-Type", "X-Cooked-Render-Ms", "X-Cooked-Upstream-Ms"}

\* A request the server has not seen yet.
Idle ==
    [pc       |-> "idle",     \* where its handler stands
     url      |-> NoURL,      \* the upstream URL embedded in the path
     got      |-> "",         \* the status Cache.Get returned
     getAt    |-> -1,         \* the clock when Cache.Get ran
     freshAt  |-> -1,         \* the clock when this request's Put or RefreshTTL ran
     cs       |-> "",         \* CachedResult.CacheStatus
     ref      |-> 0,          \* the *Entry held (0 = nil)
     cond     |-> NoCond,     \* ifNoneMatch, ifModifiedSince
     hops     |-> 0,          \* upstream requests sent: len(via)
     target   |-> NoTarget,   \* the URL of the upstream request being made
     admitted |-> FALSE,      \* what Allows said of the target when it was checked
     res      |-> NoResult,   \* what Client.Fetch returned
     page     |-> NoPage,     \* the rendered page
     resp     |-> NoResponse, \* the response written
     gone     |-> ""]         \* where the handler stood when the client disconnected

\* A fetch error whose text holds these words.
FetchError(ws) == [NoResult EXCEPT !.kind = "err", !.words = ws]

\* An error of httpClient.Do: the *url.Error it returns names the operation
\* and the URL of the request that failed ("Get \"URL\": ..."), of which the
\* model keeps the host.
DoError(ws, host) == [FetchError(ws) EXCEPT !.op = "Get", !.url = host]

\* err.Error(): the words of the error's text, those of the URL it names
\* among them.
ErrorText(err) == err.words \cup {err.url[i] : i \in 1..Len(err.url)}

\* The handler returns, having written resp.
Finish(q, resp) ==
    [Idle EXCEPT !.pc = "done", !.url = q.url, !.got = q.got, !.getAt = q.getAt,
                 !.freshAt = q.freshAt, !.hops = q.hops, !.gone = q.gone,
                 !.res = [NoResult EXCEPT !.kind = q.res.kind, !.code = q.res.code,
                                          !.html = q.res.html],
                 !.resp = resp]

\* setResponseHeaders without the security headers.
setResponseHeaders_NoSecurity(upstreamStatus, cacheStatus, contentType) ==
    [NoResponse EXCEPT !.headers = CookedHeaders,
                       !.upstreamStatus = upstreamStatus,
                       !.cache = cacheStatus,
                       !.contentType = contentType]

\* Server.setResponseHeaders: the headers of a response not yet written,
\* and the values of those the model follows.
setResponseHeaders(upstreamStatus, cacheStatus, contentType) ==
    [NoResponse EXCEPT !.headers = SecurityHeaders \cup CookedHeaders,
                       !.upstreamStatus = upstreamStatus,
                       !.cache = cacheStatus,
                       !.contentType = contentType]

\* Server.renderError, and the handler's return after it
renderError(q, statusCode, errType) ==
    Finish(q, [setResponseHeaders(statusCode, "", "error") EXCEPT
                   !.status = statusCode, !.errType = errType])

\* render.DetectFile, by the extension of the URL's path
DetectFile(ext) ==
    CASE ext = "md"  -> "markdown"
      [] ext = "mdx" -> "mdx"
      [] ext = "py"  -> "code"
      [] ext = "txt" -> "plaintext"
      [] OTHER       -> "unsupported"

\* len(page)
PageLen(page) == page.body

\* ParseUpstreamURL on the URL ExtractUpstreamFromPath returned
ParseUpstreamURL(u) ==
    [ok |-> u.scheme \in {"http", "https"} /\ HostString(u.host) # <<>>]

\* IsPrivateAddress under resolver answers d: [err, private]
IsPrivateAddress(hostname, d) ==
    LET host == StripPort(hostname)
        ips  == LookupIP(d, host)
    IN  IF ParseIP(host) # NoIP
        THEN [err |-> FALSE, private |-> IsBlockedIP(ParseIP(host))]
        ELSE IF ips = <<>>
        THEN [err |-> TRUE, private |-> FALSE]
        ELSE [err |-> FALSE, private |-> \E k \in 1..Len(ips) : IsBlockedIP(ips[k])]

\* isTimeout, isTooLarge: substring tests on the error's text
isTimeout(err) == "timeout" \in ErrorText(err) \/ "deadline" \in ErrorText(err)
isTooLarge(err) == "too large" \in ErrorText(err)

\* New with every dial guarded, allowlist or not.
New_GuardAlways(raw) ==
    [allowlist         |-> ParseAllowlist(raw),
     ssrfProtection    |-> TRUE,
     redirectValidator |-> ~ParseAllowlist(raw).nil]

\* server.New without extra fetch options: the allowlist, and the two options
\* it gives the fetch client.
New(raw) ==
    [allowlist         |-> ParseAllowlist(raw),
     ssrfProtection    |-> ParseAllowlist(raw).nil,
     redirectValidator |-> ~ParseAllowlist(raw).nil]

\* Dial whose guard looks at the first address only.
Dial_FirstOnly(guard, urlHost, d) ==
    LET addr == JoinHostPort(URLHostname(urlHost), PortText)
        host == SplitHostPort(addr).host
        ips  == IF guard THEN LookupIP(d, host) ELSE LookupIP(d, URLHostname(urlHost))
        none == [ok |-> FALSE, to |-> {}, answer |-> ips, words |-> {"dial"}]
    IN  IF guard
        THEN IF ~SplitHostPort(addr).ok THEN [none EXCEPT !.words = {"ssrf dial", "split host port"}]
             ELSE IF ips = <<>> THEN [none EXCEPT !.words = {"ssrf dial", "resolve"}]
             ELSE IF IsBlockedIP(ips[1])
             THEN [none EXCEPT !.words = {"ssrf dial", "blocked IP"}]
             ELSE [ok |-> TRUE, to |-> {ips[1]}, answer |-> ips, words |-> {}]
        ELSE IF ips = <<>> THEN none
             ELSE [ok |-> TRUE, to |-> {ips[k] : k \in 1..Len(ips)}, answer |-> ips, words |-> {}]

\* The dial of one connection to the host of a URL, under resolver answers d:
\* whether it may proceed, the addresses it may connect to, and the error's
\* words if not.
\* With the guard (DialContext of NewClient): addr is host:port as the
\* transport builds it; split, resolve, refuse if any address is blocked,
\* connect to the first.  Without: the default dialer resolves the host and
\* connects to any of its addresses.
Dial(guard, urlHost, d) ==
    LET addr == JoinHostPort(URLHostname(urlHost), PortText)
        host == SplitHostPort(addr).host
        ips  == IF guard THEN LookupIP(d, host) ELSE LookupIP(d, URLHostname(urlHost))
        none == [ok |-> FALSE, to |-> {}, answer |-> ips, words |-> {"dial"}]
    IN  IF guard
        THEN IF ~SplitHostPort(addr).ok THEN [none EXCEPT !.words = {"ssrf dial", "split host port"}]
             ELSE IF ips = <<>> THEN [none EXCEPT !.words = {"ssrf dial", "resolve"}]
             ELSE IF \E k \in 1..Len(ips) : IsBlockedIP(ips[k])
             THEN [none EXCEPT !.words = {"ssrf dial", "blocked IP"}]
             ELSE [ok |-> TRUE, to |-> {ips[1]}, answer |-> ips, words |-> {}]
        ELSE IF ips = <<>> THEN none
             ELSE [ok |-> TRUE, to |-> {ips[k] : k \in 1..Len(ips)}, answer |-> ips, words |-> {}]

\* CheckRedirect that never calls the validator.
CheckRedirect_NoValidator(srv, t, via, d) ==
    IF via >= maxRedirects THEN [ok |-> FALSE, words |-> {"too many redirects"}]
    ELSE IF t.scheme # "http" /\ t.scheme # "https"
    THEN [ok |-> FALSE, words |-> {"redirect to unsupported scheme"}]
    ELSE [ok |-> TRUE, words |-> {}]

\* The client's CheckRedirect for a redirect to t after via requests, the
\* validator being the one New installed.
CheckRedirect(srv, t, via, d) ==
    IF via >= maxRedirects THEN [ok |-> FALSE, words |-> {"too many redirects"}]
    ELSE IF t.scheme # "http" /\ t.scheme # "https"
    THEN [ok |-> FALSE, words |-> {"redirect to unsupported scheme"}]
    ELSE IF srv.redirectValidator /\ ~Allows(srv.allowlist, t.host, d)
    THEN [ok |-> FALSE, words |-> {"redirect blocked"}]
    ELSE [ok |-> TRUE, words |-> {}]

-----------------------------------------------------------------------------
(* The render handler, one action per step between two accesses to shared  *)
(* state: handleRender, CachedClient.Fetch, Client.Fetch and the http      *)
(* client's redirect loop.                                                 *)

\* GET /{upstream...} reaches handleRender with upstream URL u.  What is
\* remembered of a finished request is dropped when the request after the
\* next one arrives.
Arrive(r, u) ==
    /\ req[r].pc = "idle"
    /\ req' = [o \in DOMAIN req |->
                  IF o = r THEN [Idle EXCEPT !.pc = "start", !.url = u]
                  ELSE IF o < r - 1 /\ req[o].pc = "done" THEN [Idle EXCEPT !.pc = "done"]
                  ELSE req[o]]
    /\ UNCHANGED <<allowRaw, ssrfOn, dns, now, items, order, heap, curSize, sent, conns,
                   fnIn, fnOut>>

\* Gate with the allowlist consulted before the URL is validated.
Gate_AllowlistFirst(r) ==
    /\ req[r].pc = "start"
    /\ LET q    == req[r]
           host == HostString(q.url.host)
           srv  == New(allowRaw)
       IN  req' = [req EXCEPT ![r] =
               IF ~Allows(srv.allowlist, host, dns)
               THEN renderError(q, 403, "blocked")
               ELSE IF ~ParseUpstreamURL(q.url).ok
               THEN renderError(q, 400, "bad-request")
               ELSE IF srv.allowlist.nil /\ IsPrivateAddress(host, dns).err
               THEN renderError(q, 502, "unreachable")
               ELSE IF srv.allowlist.nil /\ IsPrivateAddress(host, dns).private
               THEN renderError(q, 403, "blocked")
               ELSE [q EXCEPT !.pc = "get",
                              !.target = [scheme |-> q.url.scheme, host |-> host],
                              !.admitted = TRUE]]
    /\ UNCHANGED <<allowRaw, ssrfOn, dns, now, items, order, heap, curSize, sent, conns,
                   fnIn, fnOut>>

\* handleRender up to the fetch: parse, allowlist, pre-fetch SSRF check.
Gate(r) ==
    /\ req[r].pc = "start"
    /\ LET q    == req[r]
           host == HostString(q.url.host)
           srv  == New(allowRaw)
       IN  req' = [req EXCEPT ![r] =
               IF ~ParseUpstreamURL(q.url).ok
               THEN renderError(q, 400, "bad-request")
               ELSE IF ~Allows(srv.allowlist, host, dns)
               THEN renderError(q, 403, "blocked")
               ELSE IF srv.allowlist.nil /\ IsPrivateAddress(host, dns).err
               THEN renderError(q, 502, "unreachable")
               ELSE IF srv.allowlist.nil /\ IsPrivateAddress(host, dns).private
               THEN renderError(q, 403, "blocked")
               ELSE [q EXCEPT !.pc = "get",
                              !.target = [scheme |-> q.url.scheme, host |-> host],
                              !.admitted = TRUE]]
    /\ UNCHANGED <<allowRaw, ssrfOn, dns, now, items, order, heap, curSize, sent, conns,
                   fnIn, fnOut>>

\* CachedClient.Fetch: the cache lookup, and the validators read off an
\* expired entry.
CacheGet(r) ==
    /\ req[r].pc = "get"
    /\ LET q == req[r]
           g == Get(TheCache, q.url, now)
       IN  /\ req' = [req EXCEPT ![r] =
                  [q EXCEPT !.got   = g.status,
                            !.getAt = now,
                            !.cs    = g.status,
                            !.ref   = g.id,
                            !.cond  = IF g.status = StatusExpired
                                      THEN [etag |-> heap[g.id].etag,
                                            lastModified |-> heap[g.id].lastModified]
                                      ELSE NoCond,
                            !.pc    = IF g.status = StatusHit THEN "serve" ELSE "send"]]
           /\ order' = g.order
    /\ UNCHANGED <<allowRaw, ssrfOn, dns, now, items, heap, curSize, sent, conns, fnIn, fnOut>>

\* httpClient.Do, one request of the chain: dial the target's host and send
\* the request.  The dial may be refused by the guard, fail to resolve, or
\* fail to connect.
Send(r) ==
    /\ req[r].pc = "send"
    /\ LET q  == req[r]
           dl == Dial(ssrfOn, q.target.host, dns)
       IN  \/ /\ ~dl.ok
              /\ req' = [req EXCEPT ![r] = [q EXCEPT !.pc = "fetched", !.res = DoError(dl.words, q.target.host)]]
              /\ UNCHANGED <<sent, conns>>
           \/ /\ dl.ok
              /\ req' = [req EXCEPT ![r] = [q EXCEPT !.pc = "fetched", !.res = DoError({"dial"}, q.target.host)]]
              /\ UNCHANGED <<sent, conns>>
           \/ /\ dl.ok
              /\ \E ip \in dl.to :
                    conns' = conns \cup {[req |-> r, ip |-> ip, answer |-> dl.answer]}
              /\ sent' = sent \cup {[req |-> r, scheme |-> q.target.scheme,
                                     host |-> q.target.host, cond |-> q.cond,
                                     admitted |-> q.admitted]}
              /\ req' = [req EXCEPT ![r] = [q EXCEPT !.pc = "wait", !.hops = q.hops + 1]]
    /\ UNCHANGED <<allowRaw, ssrfOn, dns, now, items, order, heap, curSize, fnIn, fnOut>>

\* The upstream's final answer a to the request in flight, as Client.Fetch
\* returns it: a result (no body on 304) or an error (timeout, body over
\* cfg.MaxFileSize, read error).
Answer(r, a) ==
    /\ req[r].pc = "wait"
    /\ req' = [req EXCEPT ![r] =
           [@ EXCEPT !.pc  = "fetched",
                     !.res = IF a.kind = "ok" /\ a.code = 304 THEN [a EXCEPT !.body = 0]
                             ELSE IF a.op = "Get" THEN DoError(a.words, req[r].target.host)
                             ELSE a]]
    /\ sent' = {s \in sent : s.req # r}
    /\ conns' = {c \in conns : c.req # r}
    /\ UNCHANGED <<allowRaw, ssrfOn, dns, now, items, order, heap, curSize, fnIn, fnOut>>

\* The upstream answers with a redirect to t: CheckRedirect either lets the
\* client go on to t or ends the fetch with an error.
Redirect(r, t) ==
    /\ req[r].pc = "wait"
    /\ LET q   == req[r]
           srv == New(allowRaw)
           chk == CheckRedirect(srv, t, q.hops, dns)
       IN  req' = [req EXCEPT ![r] =
               IF chk.ok
               THEN [q EXCEPT !.pc = "send", !.target = t,
                              !.admitted = Allows(srv.allowlist, t.host, dns)]
               ELSE [q EXCEPT !.pc = "fetched", !.res = DoError(chk.words, q.target.host)]]
    /\ sent' = {s \in sent : s.req # r}
    /\ conns' = {c \in conns : c.req # r}
    /\ UNCHANGED <<allowRaw, ssrfOn, dns, now, items, order, heap, curSize, fnIn, fnOut>>

\* CachedClient.Fetch with a failed revalidation returned as the error it is.
CachedFetch_ErrorOnStale(got, res) ==
    IF got = StatusExpired
    THEN IF res.kind = "err"
         THEN [err |-> TRUE, status |-> "", entry |-> FALSE, refresh |-> FALSE]
         ELSE IF res.code = 304
         THEN [err |-> FALSE, status |-> StatusRevalidated, entry |-> TRUE, refresh |-> TRUE]
         ELSE [err |-> FALSE, status |-> StatusExpired, entry |-> FALSE, refresh |-> FALSE]
    ELSE IF res.kind = "err"
         THEN [err |-> TRUE, status |-> "", entry |-> FALSE, refresh |-> FALSE]
         ELSE [err |-> FALSE, status |-> StatusMiss, entry |-> FALSE, refresh |-> FALSE]

\* CachedClient.Fetch that serves the stale entry on any answer that is not
\* 200, as it does on an error.
CachedFetch_StaleOnAnyFailure(got, res) ==
    IF got = StatusExpired
    THEN IF res.kind = "err" \/ res.code \notin {200, 304}
         THEN [err |-> FALSE, status |-> StatusHit, entry |-> TRUE, refresh |-> FALSE]
         ELSE IF res.code = 304
         THEN [err |-> FALSE, status |-> StatusRevalidated, entry |-> TRUE, refresh |-> TRUE]
         ELSE [err |-> FALSE, status |-> StatusExpired, entry |-> FALSE, refresh |-> FALSE]
    ELSE IF res.kind = "err"
         THEN [err |-> TRUE, status |-> "", entry |-> FALSE, refresh |-> FALSE]
         ELSE [err |-> FALSE, status |-> StatusMiss, entry |-> FALSE, refresh |-> FALSE]

\* What CachedClient.Fetch returns once Client.Fetch has returned res, the
\* cache lookup having said got: whether it returns an error, the cache
\* status, whether it returns the entry, whether it refreshes its TTL.
CachedFetch(got, res) ==
    IF got = StatusExpired
    THEN IF res.kind = "err"
         THEN [err |-> FALSE, status |-> StatusHit, entry |-> TRUE, refresh |-> FALSE]
         ELSE IF res.code = 304
         THEN [err |-> FALSE, status |-> StatusRevalidated, entry |-> TRUE, refresh |-> TRUE]
         ELSE [err |-> FALSE, status |-> StatusExpired, entry |-> FALSE, refresh |-> FALSE]
    ELSE IF res.kind = "err"
         THEN [err |-> TRUE, status |-> "", entry |-> FALSE, refresh |-> FALSE]
         ELSE [err |-> FALSE, status |-> StatusMiss, entry |-> FALSE, refresh |-> FALSE]

\* The page as handleRender makes it, without the sanitizer.
Pipeline_NoSanitize(contentType, res, cacheStatus) ==
    LET markdownLike == contentType \in {"markdown", "mdx"}
        rendered  == [stages |-> <<"render">>, raw |-> markdownLike /\ res.html]
        rewritten == IF markdownLike
                     THEN [rendered EXCEPT !.stages = Append(@, "rewrite")]
                     ELSE rendered
    IN  [body |-> res.body, cacheStatus |-> cacheStatus,
         stages |-> Append(rewritten.stages, "assemble"), raw |-> rewritten.raw]

\* handleRender from the render to the page: the stages the content goes
\* through, in order, and whether it still holds HTML of the upstream body
\* as the upstream wrote it.  The markdown renderer passes raw HTML through
\* (html.WithUnsafe); the code and plaintext renderers escape their input;
\* sanitize.HTML is what the content must pass; rewrite.RelativeURLs and
\* RenderPage add none.
Pipeline(contentType, res, cacheStatus) ==
    LET markdownLike == contentType \in {"markdown", "mdx"}
        rendered  == [stages |-> <<"render">>, raw |-> markdownLike /\ res.html]
        sanitized == IF markdownLike
                     THEN [stages |-> Append(rendered.stages, "sanitize"), raw |-> FALSE]
                     ELSE rendered
        rewritten == IF markdownLike
                     THEN [sanitized EXCEPT !.stages = Append(@, "rewrite")]
                     ELSE sanitized
    IN  [body |-> res.body, cacheStatus |-> cacheStatus,
         stages |-> Append(rewritten.stages, "assemble"), raw |-> rewritten.raw]

\* AfterFetch that takes every upstream answer, 200 or not, on to the render
\* and the store.
AfterFetch_StoresAnyStatus(r, renders) ==
    /\ req[r].pc = "fetched"
    /\ LET q   == req[r]
           out == CachedFetch(q.got, q.res)
           c   == IF out.refresh THEN RefreshTTL(TheCache, q.url, now) ELSE TheCache
       IN  /\ req' = [req EXCEPT ![r] =
                  IF out.err
                  THEN IF isTimeout(q.res) THEN renderError(q, 504, "timeout")
                       ELSE IF isTooLarge(q.res) THEN renderError(q, 413, "too-large")
                       ELSE renderError(q, 502, "unreachable")
                  ELSE IF out.entry
                  THEN [q EXCEPT !.cs = out.status, !.pc = "serve",
                                 !.freshAt = IF out.refresh /\ q.url \in DOMAIN items
                                             THEN now ELSE q.freshAt]
                  ELSE IF DetectFile(q.url.ext) = "unsupported"
                  THEN renderError(q, 415, "unsupported")
                  ELSE IF ~renders /\ DetectFile(q.url.ext) # "plaintext"
                  THEN renderError(q, 500, "render-error")
                  ELSE [q EXCEPT !.pc = "store", !.ref = 0, !.cs = out.status,
                                 !.page = Pipeline(DetectFile(q.url.ext), q.res, out.status)]]
           /\ SetCache(c)
    /\ UNCHANGED <<allowRaw, ssrfOn, dns, now, sent, conns, fnIn, fnOut>>

\* The rest of CachedClient.Fetch and handleRender up to the next access to
\* the cache: a returned entry goes to serveFromCache, an error or a non-200
\* answer to an error page, a 200 is rendered (renders: whether the renderer
\* succeeds).
AfterFetch(r, renders) ==
    /\ req[r].pc = "fetched"
    /\ LET q   == req[r]
           out == CachedFetch(q.got, q.res)
           c   == IF out.refresh THEN RefreshTTL(TheCache, q.url, now) ELSE TheCache
       IN  /\ req' = [req EXCEPT ![r] =
                  IF out.err
                  THEN IF isTimeout(q.res) THEN renderError(q, 504, "timeout")
                       ELSE IF isTooLarge(q.res) THEN renderError(q, 413, "too-large")
                       ELSE renderError(q, 502, "unreachable")
                  ELSE IF out.entry
                  THEN [q EXCEPT !.cs = out.status, !.pc = "serve",
                                 !.freshAt = IF out.refresh /\ q.url \in DOMAIN items
                                             THEN now ELSE q.freshAt]
                  ELSE IF q.res.code # 200
                  THEN renderError(q, q.res.code, "upstream-error")
                  ELSE IF DetectFile(q.url.ext) = "unsupported"
                  THEN renderError(q, 415, "unsupported")
                  ELSE IF ~renders /\ DetectFile(q.url.ext) # "plaintext"
                  THEN renderError(q, 500, "render-error")
                  ELSE [q EXCEPT !.pc = "store", !.ref = 0, !.cs = out.status,
                                 !.page = Pipeline(DetectFile(q.url.ext), q.res, out.status)]]
           /\ SetCache(c)
    /\ UNCHANGED <<allowRaw, ssrfOn, dns, now, sent, conns, fnIn, fnOut>>

\* handleRender's end: store the page, write the response.
Store(r) ==
    /\ req[r].pc = "store"
    /\ LET q     == req[r]
           entry == [html |-> q.page, etag |-> q.res.etag,
                     lastModified |-> q.res.lastModified, size |-> PageLen(q.page),
                     contentType |-> DetectFile(q.url.ext), expiresAt |-> 0]
       IN  /\ req' = [req EXCEPT ![r] =
                  Finish([q EXCEPT !.freshAt = now],
                         [setResponseHeaders(q.res.code, q.cs, DetectFile(q.url.ext)) EXCEPT
                              !.status = 200, !.page = q.page])]
           /\ SetCache(Put(TheCache, q.url, entry, now))
    /\ UNCHANGED <<allowRaw, ssrfOn, dns, now, sent, conns, fnIn, fnOut>>

\* serveFromCache, first read of the entry: the response headers.
serveFromCache_Headers(r) ==
    /\ req[r].pc = "serve"
    /\ LET q == req[r]
       IN  req' = [req EXCEPT ![r] =
               [q EXCEPT !.pc = "write",
                         !.resp = [setResponseHeaders(200, q.cs, heap[q.ref].contentType)
                                       EXCEPT !.status = 200]]]
    /\ UNCHANGED <<allowRaw, ssrfOn, dns, now, items, order, heap, curSize, sent, conns,
                   fnIn, fnOut>>

\* serveFromCache, second read of the entry: the body.
serveFromCache_Body(r) ==
    /\ req[r].pc = "write"
    /\ LET q == req[r]
       IN  req' = [req EXCEPT ![r] = Finish(q, [q.resp EXCEPT !.page = heap[q.ref].html])]
    /\ SetCache(TheCache)
    /\ UNCHANGED <<allowRaw, ssrfOn, dns, now, sent, conns, fnIn, fnOut>>

\* The client of request r closes its connection while the fetch is in its
\* dial or waits for the upstream: the context of the inbound request is
\* cancelled.  handleRender passes no context to the fetcher, and Client.Fetch
\* builds its request with http.NewRequest: nothing reads the cancellation.
Disconnect(r) ==
    /\ req[r].pc \in {"send", "wait"}
    /\ req[r].gone = ""
    /\ req' = [req EXCEPT ![r].gone = req[r].pc]
    /\ UNCHANGED <<allowRaw, ssrfOn, dns, now, items, order, heap, curSize, sent, conns,
                   fnIn, fnOut>>

\* The cache's clock advances.
Tick ==
    /\ now < MaxTime
    /\ now' = now + 1
    /\ UNCHANGED <<allowRaw, ssrfOn, dns, items, order, heap, curSize, req, sent, conns,
                   fnIn, fnOut>>

\* The resolver's answers change.
DNSChange ==
    /\ dns' \in DNSTables \ {dns}
    /\ UNCHANGED <<allowRaw, ssrfOn, now, items, order, heap, curSize, req, sent, conns,
                   fnIn, fnOut>>

\* The state after New: an empty cache, n requests not yet made.
InitServer(allows, tables, n) ==
    /\ allowRaw \in allows
    /\ ssrfOn = New(allowRaw).ssrfProtection
    /\ dns \in tables
    /\ EmptyCache
    /\ req = [r \in 1..n |-> Idle]
    /\ sent = {}
    /\ conns = {}
    /\ fnIn = NoProbe
    /\ fnOut = "none"

-----------------------------------------------------------------------------
(* One request through the gates and the fetch client, the resolver's      *)
(* answers changing under it.                                              *)

GateAllowChoices ==
    { <<>>,
      << <<"b">> >>,
      << <<"10.0.0.0/8">>, <<"172.16.0.0/12">> >>,
      << <<"*", ".", "B">>, <<"10.0.0.0/8">>, <<"A", ".", "b">> >> }

\* Hosts in every form a URL can hold them in.
GateHosts ==
    {[kind |-> "name", text |-> n, port |-> p] :
        n \in {<<"b">>, <<"a", ".", "b">>, <<"A", ".", "B">>}, p \in BOOLEAN}
    \cup {[kind |-> "name", text |-> <<"timeout", ".", "b">>, port |-> FALSE]}
    \cup {[kind |-> "ip", text |-> <<t>>, port |-> p] : t \in V4Texts, p \in BOOLEAN}
    \cup {[kind |-> "ip6b", text |-> <<t>>, port |-> p] : t \in V6Texts, p \in BOOLEAN}

GateURLs ==
    {[scheme |-> "http", host |-> h, ext |-> "md"] : h \in GateHosts}
    \cup {[scheme |-> "ftp", host |-> [kind |-> "name", text |-> <<"b">>, port |-> FALSE],
           ext |-> "md"],
          [scheme |-> "https", host |-> [kind |-> "name", text |-> <<>>, port |-> FALSE],
           ext |-> "md"]}

RedirectTargets ==
    {[scheme |-> "http", host |-> <<"b">>],
     [scheme |-> "https", host |-> <<"a", ".", "b">>],
     [scheme |-> "http", host |-> <<"10.0.0.1", ":", PortText>>],
     [scheme |-> "ftp", host |-> <<"b">>]}

GateAnswers ==
    {[NoResult EXCEPT !.kind = "ok", !.code = 200, !.body = 1],
     [NoResult EXCEPT !.kind = "ok", !.code = 404, !.body = 1],
     DoError({"timeout"}, <<>>)}

InitGate == InitServer(GateAllowChoices, DNSTables, 1)

NextGate ==
    \/ \E r \in DOMAIN req : \E u \in GateURLs : Arrive(r, u)
    \/ \E r \in DOMAIN req : Gate(r)
    \/ \E r \in DOMAIN req : CacheGet(r)
    \/ \E r \in DOMAIN req : Send(r)
    \/ \E r \in DOMAIN req : \E a \in GateAnswers : Answer(r, a)
    \/ \E r \in DOMAIN req : \E t \in RedirectTargets : Redirect(r, t)
    \/ \E r \in DOMAIN req : \E renders \in BOOLEAN : AfterFetch(r, renders)
    \/ \E r \in DOMAIN req : Store(r)
    \/ \E r \in DOMAIN req : Disconnect(r)
    \/ DNSChange

SpecGate == InitGate /\ [][NextGate]_vars

-----------------------------------------------------------------------------
(* Requests one after another against the cache, the clock advancing.      *)

CacheURLs ==
    {[scheme |-> "http", host |-> [kind |-> "name", text |-> <<"b">>, port |-> FALSE],
      ext |-> e] : e \in {"md", "py"}}

Validators == {NoCond, [etag |-> "e", lastModified |-> "m"]}

CacheAnswers ==
    {[NoResult EXCEPT !.kind = "ok", !.code = 200, !.body = b, !.etag = v.etag,
                      !.lastModified = v.lastModified] : b \in 1..MaxBody, v \in Validators}
    \cup {[NoResult EXCEPT !.kind = "ok", !.code = 304],
          [NoResult EXCEPT !.kind = "ok", !.code = 404, !.body = 1],
          FetchError({"timeout"}), FetchError({"too large"}), FetchError({"read"})}

\* The one redirect the upstream of this specification answers with.
CacheRedirects == {[scheme |-> "ftp", host |-> <<"b">>]}

\* No other request is being handled, and requests are made in the order of
\* their numbers.
Quiet(r) ==
    /\ \A o \in DOMAIN req \ {r} : req[o].pc \in {"idle", "done"}
    /\ \A o \in DOMAIN req : o < r => req[o].pc = "done"

InitCache ==
    InitServer({<<>>}, {(<<"b">> :> <<IP("8.8.8.8")>>)}, NumReq)

NextCache ==
    \/ \E r \in DOMAIN req : \E u \in CacheURLs : Quiet(r) /\ Arrive(r, u)
    \/ \E r \in DOMAIN req : Gate(r)
    \/ \E r \in DOMAIN req : CacheGet(r)
    \/ \E r \in DOMAIN req : Send(r)
    \/ \E r \in DOMAIN req : \E a \in CacheAnswers : Answer(r, a)
    \/ \E r \in DOMAIN req : \E t \in CacheRedirects : Redirect(r, t)
    \/ \E r \in DOMAIN req : \E renders \in BOOLEAN : AfterFetch(r, renders)
    \/ \E r \in DOMAIN req : Store(r)
    \/ \E r \in DOMAIN req : serveFromCache_Headers(r)
    \/ \E r \in DOMAIN req : serveFromCache_Body(r)
    \/ Tick

SpecCache == InitCache /\ [][NextCache]_vars

-----------------------------------------------------------------------------
(* Concurrent requests: the handlers' steps interleave in every order, the *)
(* cache's own operations being atomic under its mutex.                    *)

\* The handlers running at once.
NumConc == 2

\* A markdown file and a file of a type DetectFile does not know.
ConcURLs ==
    {[scheme |-> "http", host |-> [kind |-> "name", text |-> <<"b">>, port |-> FALSE],
      ext |-> e] : e \in {"md", "bin"}}

\* Pages of every size up to one more than the cache holds.
ConcAnswers ==
    {[NoResult EXCEPT !.kind = "ok", !.code = 200, !.body = b] : b \in 1..(CacheMaxSize + 1)}
    \cup {[NoResult EXCEPT !.kind = "ok", !.code = 304],
          [NoResult EXCEPT !.kind = "ok", !.code = 404, !.body = 1],
          FetchError({"too large"})}

InitConc ==
    InitServer({<<>>}, {(<<"b">> :> <<IP("8.8.8.8")>>)}, NumConc)

NextConc ==
    \/ \E r \in DOMAIN req : \E u \in ConcURLs : Arrive(r, u)
    \/ \E r \in DOMAIN req : Gate(r)
    \/ \E r \in DOMAIN req : CacheGet(r)
    \/ \E r \in DOMAIN req : Send(r)
    \/ \E r \in DOMAIN req : \E a \in ConcAnswers : Answer(r, a)
    \/ \E r \in DOMAIN req : \E renders \in BOOLEAN : AfterFetch(r, renders)
    \/ \E r \in DOMAIN req : Store(r)
    \/ \E r \in DOMAIN req : serveFromCache_Headers(r)
    \/ \E r \in DOMAIN req : serveFromCache_Body(r)
    \/ Tick

SpecConc == InitConc /\ [][NextConc]_vars

-----------------------------------------------------------------------------
(* The cache alone, called in every order.  fnIn is the last call; fnOut   *)
(* is what it returned (status, entry) and the keys held, most recently  *)
(* used first, use                                                          *)
(* being a put, a get that returned hit, or a refresh.                     *)

LRUKeys ==
    {[scheme |-> "http", host |-> [kind |-> "name", text |-> <<"b">>, port |-> FALSE],
      ext |-> e] : e \in {"md", "py", "txt"}}

\* Entries of every size up to one more than the cache holds.
LRUEntries ==
    {[html |-> [NoPage EXCEPT !.body = n, !.cacheStatus = StatusMiss], etag |-> "", lastModified |-> "",
      size |-> n, contentType |-> "markdown", expiresAt |-> 0] : n \in 1..(CacheMaxSize + 1)}

InitLRU ==
    /\ allowRaw = <<>>
    /\ ssrfOn = New(allowRaw).ssrfProtection
    /\ dns = (<<"b">> :> <<IP("8.8.8.8")>>)
    /\ EmptyCache
    /\ NoTraffic
    /\ fnIn = [op |-> "none", key |-> NoURL, size |-> 0]
    /\ fnOut = [status |-> "", id |-> 0, used |-> <<>>]

\* The keys of ks in the order of ord.
Held(ord, ks) ==
    LET in(k) == k \in ks
    IN  SelectSeq(ord, in)

\* c.Get(key)
CallGet(key) ==
    /\ LET g == Get(TheCache, key, now)
       IN  /\ order' = g.order
           /\ fnOut' = [status |-> g.status,
                        id     |-> g.id,
                        used   |-> IF g.status = StatusHit
                                   THEN MoveToFront(fnOut.used, key) ELSE fnOut.used]
    /\ fnIn' = [op |-> "get", key |-> key, size |-> 0]
    /\ UNCHANGED <<allowRaw, ssrfOn, dns, now, items, heap, curSize, req, sent, conns>>

\* c.Put(key, entry)
CallPut(key, entry) ==
    /\ UNCHANGED <<allowRaw, ssrfOn, dns, now, req, sent, conns>>
    /\ SetCache(Put(TheCache, key, entry, now))
    /\ fnIn' = [op |-> "put", key |-> key, size |-> entry.size]
    /\ fnOut' = [status |-> "", id |-> 0, used |-> Held(MoveToFront(fnOut.used, key), DOMAIN items')]

\* c.RefreshTTL(key)
CallRefreshTTL(key) ==
    /\ UNCHANGED <<allowRaw, ssrfOn, dns, now, req, sent, conns>>
    /\ SetCache(RefreshTTL(TheCache, key, now))
    /\ fnIn' = [op |-> "refresh", key |-> key, size |-> 0]
    /\ fnOut' = [status |-> "", id |-> 0,
                 used   |-> IF key \in DOMAIN items
                            THEN MoveToFront(fnOut.used, key) ELSE fnOut.used]

NextLRU ==
    \/ \E key \in LRUKeys : CallGet(key)
    \/ \E key \in LRUKeys : \E entry \in LRUEntries : CallPut(key, entry)
    \/ \E key \in LRUKeys : CallRefreshTTL(key)
    \/ Tick

SpecLRU == InitLRU /\ [][NextLRU]_vars

-----------------------------------------------------------------------------
(* Client.Fetch once httpClient.Do has returned a response: the size cap.  *)
(* fnIn is the response, fnOut what Fetch returns.                         *)

Min(a, b) == IF a < b THEN a ELSE b

\* The responses of an upstream: status, the ContentLength the transport
\* reports (-1 when the response has no Content-Length header, 0 for a 304)
\* and the number of body bytes the upstream sends before it closes.
Responses ==
    {[code |-> c, contentLength |-> cl, sends |-> n] :
        c \in {200, 404, 500}, cl \in -1..(MaxFileSize + 2), n \in 0..(MaxFileSize + 2)}
    \cup {[code |-> 304, contentLength |-> 0, sends |-> 0]}

\* resp.Body: the bytes a reader can get from it, and whether it ends in an
\* error (the upstream closed before the Content-Length it announced).
Body(resp) ==
    IF resp.contentLength >= 0
    THEN [bytes |-> Min(resp.sends, resp.contentLength),
          short |-> resp.sends < resp.contentLength]
    ELSE [bytes |-> resp.sends, short |-> FALSE]

\* Fetch without the test of the length read.
Fetch_NoLengthTest(resp) ==
    LET read == Min(Body(resp).bytes, MaxFileSize + 1)
        err(ws, n) == [kind |-> "err", code |-> 0, body |-> 0, words |-> ws, read |-> n]
    IN  IF resp.code = 304
        THEN [kind |-> "ok", code |-> 304, body |-> 0, words |-> {}, read |-> 0]
        ELSE IF resp.contentLength > 0 /\ resp.contentLength > MaxFileSize
        THEN err({"too large"}, 0)
        ELSE IF Body(resp).short /\ read = Body(resp).bytes
        THEN err({"read"}, read)
        ELSE [kind |-> "ok", code |-> resp.code, body |-> read, words |-> {}, read |-> read]

\* Client.Fetch from the response on: what it returns, and the number of
\* body bytes it read.
Fetch(resp) ==
    LET read == Min(Body(resp).bytes, MaxFileSize + 1)
        err(ws, n) == [kind |-> "err", code |-> 0, body |-> 0, words |-> ws, read |-> n]
    IN  IF resp.code = 304
        THEN [kind |-> "ok", code |-> 304, body |-> 0, words |-> {}, read |-> 0]
        ELSE IF resp.contentLength > 0 /\ resp.contentLength > MaxFileSize
        THEN err({"too large"}, 0)
        ELSE IF Body(resp).short /\ read = Body(resp).bytes
        THEN err({"read"}, read)
        ELSE IF read > MaxFileSize
        THEN err({"too large"}, read)
        ELSE [kind |-> "ok", code |-> resp.code, body |-> read, words |-> {}, read |-> read]

\* Fetch has not been called.
NotFetched == [kind |-> "none", code |-> 0, body |-> 0, words |-> {}, read |-> 0]

InitFetch ==
    /\ allowRaw = <<>>
    /\ ssrfOn = New(allowRaw).ssrfProtection
    /\ dns = (<<"b">> :> <<IP("8.8.8.8")>>)
    /\ EmptyCache
    /\ NoTraffic
    /\ fnIn \in Responses
    /\ fnOut = NotFetched

\* One call of Client.Fetch.
CallFetch ==
    /\ fnOut = NotFetched
    /\ fnOut' = Fetch(fnIn)
    /\ UNCHANGED <<allowRaw, ssrfOn, dns, now, items, order, heap, curSize, req, sent, conns, fnIn>>

NextFetch == CallFetch

SpecFetch == InitFetch /\ [][NextFetch]_vars

-----------------------------------------------------------------------------
(* Files of every type, with and without raw HTML in them, requested one   *)
(* after another.                                                          *)

\* Requests of this specification.
NumRender == 2

RenderURLs ==
    {[scheme |-> "http", host |-> [kind |-> "name", text |-> <<"b">>, port |-> FALSE],
      ext |-> e] : e \in {"md", "mdx", "py", "txt", "bin"}}

RenderAnswers ==
    {[NoResult EXCEPT !.kind = "ok", !.code = 200, !.body = 1, !.html = h] : h \in BOOLEAN}
    \cup {[NoResult EXCEPT !.kind = "ok", !.code = 404, !.body = 1, !.html = TRUE]}

InitRender ==
    InitServer({<<>>}, {(<<"b">> :> <<IP("8.8.8.8")>>)}, NumRender)

NextRender ==
    \/ \E r \in DOMAIN req : \E u \in RenderURLs : Quiet(r) /\ Arrive(r, u)
    \/ \E r \in DOMAIN req : Gate(r)
    \/ \E r \in DOMAIN req : CacheGet(r)
    \/ \E r \in DOMAIN req : Send(r)
    \/ \E r \in DOMAIN req : \E a \in RenderAnswers : Answer(r, a)
    \/ \E r \in DOMAIN req : \E renders \in BOOLEAN : AfterFetch(r, renders)
    \/ \E r \in DOMAIN req : Store(r)
    \/ \E r \in DOMAIN req : serveFromCache_Headers(r)
    \/ \E r \in DOMAIN req : serveFromCache_Body(r)

SpecRender == InitRender /\ [][NextRender]_vars

-----------------------------------------------------------------------------
(* The render route from the gates to the response: requests one after     *)
(* another, with and without an allowlist, the resolver's answers changing *)
(* between and under them.                                                 *)

\* Requests of this specification.
NumRoute == 3

\* No allowlist, and one of CIDR entries only.
RouteAllowChoices == { <<>>, << <<"10.0.0.0/8">>, <<"172.16.0.0/12">> >> }

RouteURLs ==
    {[scheme |-> "http", host |-> [kind |-> "name", text |-> n, port |-> FALSE], ext |-> e] :
        n \in {<<"b">>, <<"a", ".", "b">>}, e \in {"md", "bin"}}
    \cup {[scheme |-> "ftp", host |-> [kind |-> "name", text |-> <<"b">>, port |-> FALSE],
           ext |-> "md"]}

RouteAnswers ==
    {[NoResult EXCEPT !.kind = "ok", !.code = 200, !.body = 1],
     [NoResult EXCEPT !.kind = "ok", !.code = 404, !.body = 1],
     DoError({"timeout"}, <<>>), FetchError({"too large"})}

InitRoute == InitServer(RouteAllowChoices, DNSTables, NumRoute)

NextRoute ==
    \/ \E r \in DOMAIN req : \E u \in RouteURLs : Quiet(r) /\ Arrive(r, u)
    \/ \E r \in DOMAIN req : Gate(r)
    \/ \E r \in DOMAIN req : CacheGet(r)
    \/ \E r \in DOMAIN req : Send(r)
    \/ \E r \in DOMAIN req : \E a \in RouteAnswers : Answer(r, a)
    \/ \E r \in DOMAIN req : \E renders \in BOOLEAN : AfterFetch(r, renders)
    \/ \E r \in DOMAIN req : Store(r)
    \/ \E r \in DOMAIN req : serveFromCache_Headers(r)
    \/ \E r \in DOMAIN req : serveFromCache_Body(r)
    \/ DNSChange

SpecRoute == InitRoute /\ [][NextRoute]_vars

-----------------------------------------------------------------------------
(* One URL requested again and again, its upstream answering with pages of *)
(* every size, the clock advancing past the TTL.                           *)

\* Requests of this specification.
NumReval == 3

RevalURLs ==
    {[scheme |-> "http", host |-> [kind |-> "name", text |-> <<"b">>, port |-> FALSE],
      ext |-> "md"]}

\* Pages of every size up to one more than the cache holds, with and without
\* validators; not modified; not found; a failed read.
RevalAnswers ==
    {[NoResult EXCEPT !.kind = "ok", !.code = 200, !.body = b, !.etag = v.etag,
                      !.lastModified = v.lastModified] :
        b \in 1..(CacheMaxSize + 1), v \in Validators}
    \cup {[NoResult EXCEPT !.kind = "ok", !.code = 304],
          [NoResult EXCEPT !.kind = "ok", !.code = 404, !.body = 1],
          FetchError({"read"})}

InitReval ==
    InitServer({<<>>}, {(<<"b">> :> <<IP("8.8.8.8")>>)}, NumReval)

NextReval ==
    \/ \E r \in DOMAIN req : \E u \in RevalURLs : Quiet(r) /\ Arrive(r, u)
    \/ \E r \in DOMAIN req : Gate(r)
    \/ \E r \in DOMAIN req : CacheGet(r)
    \/ \E r \in DOMAIN req : Send(r)
    \/ \E r \in DOMAIN req : \E a \in RevalAnswers : Answer(r, a)
    \/ \E r \in DOMAIN req : \E renders \in BOOLEAN : AfterFetch(r, renders)
    \/ \E r \in DOMAIN req : Store(r)
    \/ \E r \in DOMAIN req : serveFromCache_Headers(r)
    \/ \E r \in DOMAIN req : serveFromCache_Body(r)
    \/ Tick

SpecReval == InitReval /\ [][NextReval]_vars

-----------------------------------------------------------------------------
(* Three handlers at once on one URL: one has stored the page, one serves  *)
(* it from the cache, one stores it again.                                 *)

\* The handlers running at once.
NumRace == 3

\* Two pages that differ.
RaceAnswers ==
    {[NoResult EXCEPT !.kind = "ok", !.code = 200, !.body = b] : b \in 1..2}

InitRace ==
    InitServer({<<>>}, {(<<"b">> :> <<IP("8.8.8.8")>>)}, NumRace)

NextRace ==
    \/ \E r \in DOMAIN req : \E u \in RevalURLs : Arrive(r, u)
    \/ \E r \in DOMAIN req : Gate(r)
    \/ \E r \in DOMAIN req : CacheGet(r)
    \/ \E r \in DOMAIN req : Send(r)
    \/ \E r \in DOMAIN req : \E a \in RaceAnswers : Answer(r, a)
    \/ \E r \in DOMAIN req : \E renders \in BOOLEAN : AfterFetch(r, renders)
    \/ \E r \in DOMAIN req : Store(r)
    \/ \E r \in DOMAIN req : serveFromCache_Headers(r)
    \/ \E r \in DOMAIN req : serveFromCache_Body(r)

SpecRace == InitRace /\ [][NextRace]_vars

-----------------------------------------------------------------------------
(* rewrite.RelativeURLs alone, on every href/src value.  Text is a sequence *)
(* of lexemes; a document is the sequence of the values of its href="..."   *)
(* and src="..." attributes, the bytes between them being left alone.       *)

\* The lexemes of an attribute value; SchemeLexemes end in a colon.
SchemeLexemes == {"http:", "https:", "mailto:", "data:"}
HrefLexemes   == SchemeLexemes \cup {"/", "#", "?", ".", "x", "md"}

\* hrefRe matches values of one byte or more; documents hold one value of
\* up to MaxHrefLen lexemes, or two of one lexeme.
Hrefs == SeqsUpTo(HrefLexemes, MaxHrefLen) \ {<<>>}
Htmls ==
    {<<v>> : v \in Hrefs} \cup {<<<<a>>, <<b>>>> : a \in HrefLexemes, b \in HrefLexemes}

\* The upstream URLs: u.Scheme + "://" + u.Host, and u.Path.
UpstreamURLs ==
    {[origin |-> <<"http:", "/", "/", "h">>, path |-> p] :
        p \in {<<>>, <<"/", "f", ".", "md">>, <<"/", "d", "/", "f", ".", "md">>}}

\* The --base-url values
BaseURLs == {<<>>, <<"http:", "/", "/", "p", "/">>}

\* strings.Index for a one-lexeme needle: 0 where Go returns -1
Index(s, c) ==
    IF ContainsLexeme(s, c) THEN CHOOSE i \in 1..Len(s) : s[i] = c /\ \A j \in 1..(i - 1) : s[j] # c
    ELSE 0

\* strings.LastIndex for a one-lexeme needle: 0 where Go returns -1
LastIndex(s, c) ==
    IF ContainsLexeme(s, c) THEN CHOOSE i \in 1..Len(s) : s[i] = c /\ \A j \in (i + 1)..Len(s) : s[j] # c
    ELSE 0

\* strings.TrimRight(s, "/")
RECURSIVE TrimRight(_)
TrimRight(s) ==
    IF s # <<>> /\ s[Len(s)] = "/" THEN TrimRight(SubSeq(s, 1, Len(s) - 1)) ELSE s

\* strings.Contains(s, "://")
ContainsSchemeSep(s) ==
    \E i \in 1..(Len(s) - 2) : s[i] \in SchemeLexemes /\ s[i + 1] = "/" /\ s[i + 2] = "/"

\* path.Dir, on paths without "." and ".." elements and doubled slashes
pathDir(p) ==
    LET dir == SubSeq(p, 1, LastIndex(p, "/"))
    IN  IF dir = <<>> THEN <<".">>
        ELSE IF TrimRight(dir) = <<>> THEN <<"/">>
        ELSE TrimRight(dir)

\* path.Ext: from the last dot of the last slash-separated element
pathExt(p) ==
    IF LastIndex(p, ".") > LastIndex(p, "/") THEN SubSeq(p, LastIndex(p, "."), Len(p)) ELSE <<>>

\* render.IsMarkdownLink: the lexemes spell .md or .mdx
IsMarkdownLink(urlPath) ==
    ToLower(pathExt(urlPath)) \in {<<".", "md">>, <<".", "md", "x">>}

\* resolveRelative that keeps a leading "./".
resolveRelative_KeepsDotSlash(base, href) ==
    IF ~ContainsSchemeSep(href) THEN TrimRight(base) \o <<"/">> \o href ELSE href

\* rewrite.resolveRelative
resolveRelative(base, href) ==
    LET h == IF HasPrefix(href, <<".", "/">>) THEN SubSeq(href, 3, Len(href)) ELSE href
    IN  IF ~ContainsSchemeSep(h) THEN TrimRight(base) \o <<"/">> \o h ELSE h

\* The function RelativeURLs hands to ReplaceAllFunc, on the value of one match.
RelativeURL(value, upstreamURL, baseURL) ==
    LET basePath == IF pathDir(upstreamURL.path) = <<".">> THEN <<>> ELSE pathDir(upstreamURL.path)
        base     == upstreamURL.origin \o basePath
        hashAt   == Index(value, "#")
        fragment == IF hashAt > 0 THEN SubSeq(value, hashAt, Len(value)) ELSE <<>>
        noFrag   == IF hashAt > 0 THEN SubSeq(value, 1, hashAt - 1) ELSE value
        markAt   == Index(noFrag, "?")
        query    == IF markAt > 0 THEN SubSeq(noFrag, markAt, Len(noFrag)) ELSE <<>>
        href     == IF markAt > 0 THEN SubSeq(noFrag, 1, markAt - 1) ELSE noFrag
        resolved == resolveRelative(base, href)
        cookedPrefix == IF baseURL # <<>> THEN TrimRight(baseURL) \o <<"/">> ELSE <<"/">>
    IN  IF \/ HasPrefix(value, <<"http:", "/", "/">>)
           \/ HasPrefix(value, <<"https:", "/", "/">>)
           \/ HasPrefix(value, <<"/", "/">>)
        THEN value
        ELSE IF \/ HasPrefix(value, <<"#">>)
                \/ HasPrefix(value, <<"data:">>)
                \/ HasPrefix(value, <<"mailto:">>)
        THEN value
        ELSE IF href = <<>> THEN value
        ELSE IF IsMarkdownLink(href) THEN cookedPrefix \o resolved \o query \o fragment
        ELSE resolved \o query \o fragment

\* rewrite.RelativeURLs: every match replaced
RelativeURLs(html, upstreamURL, baseURL) ==
    [i \in 1..Len(html) |-> RelativeURL(html[i], upstreamURL, baseURL)]

\* No document rewritten yet.
NotRewritten == [done |-> FALSE, html |-> <<>>]

InitRewrite ==
    /\ allowRaw = <<>>
    /\ ssrfOn = FALSE
    /\ dns = <<>>
    /\ EmptyCache
    /\ NoTraffic
    /\ fnIn \in [html : Htmls, upstreamURL : UpstreamURLs, baseURL : BaseURLs]
    /\ fnOut = NotRewritten

CallRelativeURLs ==
    /\ fnOut = NotRewritten
    /\ fnOut' = [done |-> TRUE, html |-> RelativeURLs(fnIn.html, fnIn.upstreamURL, fnIn.baseURL)]
    /\ UNCHANGED <<allowRaw, ssrfOn, dns, now, items, order, heap, curSize, req, sent, conns, fnIn>>

NextRewrite == CallRelativeURLs

SpecRewrite == InitRewrite /\ [][NextRewrite]_vars

-----------------------------------------------------------------------------
(* redactUpstream alone, on pairs of upstream URLs.  A URL is drawn by its  *)
(* parts and handed over as the text handleRender has of it.                *)

\* The parts of an upstream URL: userinfo (none, plain, with a password, one
\* url.Parse refuses), host, path, query (none, a lone "?", one with a
\* token), fragment.
URLParts ==
    [user     : {<<>>, <<"u">>, <<"u", ":", "s">>, <<"u", " ", "s">>},
     host     : {<<"h">>, <<"g">>},
     path     : {<<>>, <<"/", "p">>},
     query    : {<<>>, <<"?">>, <<"?", "t">>},
     fragment : {<<>>, <<"#">>, <<"#", "t">>}]

\* rawUpstream, as ExtractUpstreamFromPath returns it
RawUpstream(x) ==
    <<"http:", "/", "/">> \o (IF x.user = <<>> THEN <<>> ELSE x.user \o <<"@">>)
        \o x.host \o x.path \o x.query \o x.fragment

\* url.Parse: the fragment is cut at the first "#"; a lone "?" at the end
\* sets ForceQuery, else the query is cut at the first "?"; the authority
\* runs from "//" to the next "/", its userinfo up to the last "@".
urlParse(raw) ==
    LET hashAt    == Index(raw, "#")
        noFrag    == IF hashAt > 0 THEN SubSeq(raw, 1, hashAt - 1) ELSE raw
        marks     == {i \in 1..Len(noFrag) : noFrag[i] = "?"}
        force     == noFrag # <<>> /\ noFrag[Len(noFrag)] = "?" /\ Cardinality(marks) = 1
        markAt    == Index(noFrag, "?")
        noQuery   == IF markAt > 0 THEN SubSeq(noFrag, 1, markAt - 1) ELSE noFrag
        hasScheme == noQuery # <<>> /\ noQuery[1] \in SchemeLexemes
        rest      == IF hasScheme THEN Tail(noQuery) ELSE noQuery
        hasAuth   == HasPrefix(rest, <<"/", "/">>)
        afterAuth == IF hasAuth THEN SubSeq(rest, 3, Len(rest)) ELSE rest
        slashAt   == Index(afterAuth, "/")
        authority == IF ~hasAuth THEN <<>>
                     ELSE IF slashAt > 0 THEN SubSeq(afterAuth, 1, slashAt - 1)
                     ELSE afterAuth
        atAt      == LastIndex(authority, "@")
    IN  [err        |-> atAt > 0 /\ ContainsLexeme(SubSeq(authority, 1, atAt - 1), " "),
         Scheme     |-> IF hasScheme THEN <<noQuery[1]>> ELSE <<>>,
         User       |-> SubSeq(authority, 1, atAt - 1),
         hasUser    |-> atAt > 0,
         Host       |-> SubSeq(authority, atAt + 1, Len(authority)),
         Path       |-> IF ~hasAuth THEN rest
                        ELSE IF slashAt > 0 THEN SubSeq(afterAuth, slashAt, Len(afterAuth))
                        ELSE <<>>,
         ForceQuery |-> force,
         RawQuery   |-> IF force \/ markAt = 0 THEN <<>> ELSE SubSeq(noFrag, markAt + 1, Len(noFrag)),
         Fragment   |-> IF hashAt > 0 THEN SubSeq(raw, hashAt + 1, Len(raw)) ELSE <<>>]

\* URL.String
urlString(u) ==
    u.Scheme
        \o (IF u.Host # <<>> \/ u.hasUser THEN <<"/", "/">> ELSE <<>>)
        \o (IF u.hasUser THEN u.User \o <<"@">> ELSE <<>>)
        \o u.Host \o u.Path
        \o (IF u.ForceQuery \/ u.RawQuery # <<>> THEN <<"?">> \o u.RawQuery ELSE <<>>)
        \o (IF u.Fragment # <<>> THEN <<"#">> \o u.Fragment ELSE <<>>)

\* redactUpstream
redactUpstream(raw) ==
    LET u == urlParse(raw)
    IN  IF u.err THEN <<>>
        ELSE urlString([u EXCEPT !.User = <<>>, !.hasUser = FALSE, !.RawQuery = <<>>,
                                 !.Fragment = <<>>])

\* No header computed yet.
NotRedacted == [done |-> FALSE, a |-> <<>>, b |-> <<>>]

InitRedact ==
    /\ allowRaw = <<>>
    /\ ssrfOn = FALSE
    /\ dns = <<>>
    /\ EmptyCache
    /\ NoTraffic
    /\ fnIn \in [a : URLParts, b : URLParts]
    /\ fnOut = NotRedacted

\* The X-Cooked-Upstream headers of two requests, for upstream URLs a and b.
CallRedactUpstream ==
    /\ fnOut = NotRedacted
    /\ fnOut' = [done |-> TRUE,
                 a |-> redactUpstream(RawUpstream(fnIn.a)),
                 b |-> redactUpstream(RawUpstream(fnIn.b))]
    /\ UNCHANGED <<allowRaw, ssrfOn, dns, now, items, order, heap, curSize, req, sent, conns, fnIn>>

NextRedact == CallRedactUpstream

SpecRedact == InitRedact /\ [][NextRedact]_vars

-----------------------------------------------------------------------------
(* ExtractUpstreamFromPath alone, on every request path and query.         *)

\* The lexemes of a request path, and the raw queries.
PathLexemes == {"http:", "https:", "HTTP:", "/", "h"}
RawQueries  == {<<>>, <<"q">>, <<"q", "?", "q">>}

\* The text with the "//" after its first lexeme collapsed to "/", as the
\* router's redirect to the cleaned path leaves it.
CollapseScheme(u) ==
    IF Len(u) >= 3 /\ u[2] = "/" /\ u[3] = "/" THEN <<u[1], "/">> \o SubSeq(u, 4, Len(u)) ELSE u

\* ExtractUpstreamFromPath that does not restore the slash.
ExtractUpstreamFromPath_NoRestore(path, rawQuery) ==
    LET upstream == IF HasPrefix(path, <<"/">>) THEN Tail(path) ELSE path
    IN  upstream \o (IF rawQuery # <<>> THEN <<"?">> \o rawQuery ELSE <<>>)

\* ExtractUpstreamFromPath
ExtractUpstreamFromPath(path, rawQuery) ==
    LET upstream == IF HasPrefix(path, <<"/">>) THEN Tail(path) ELSE path
        http     == IF HasPrefix(upstream, <<"http:", "/">>)
                       /\ ~HasPrefix(upstream, <<"http:", "/", "/">>)
                    THEN <<"http:", "/", "/">> \o SubSeq(upstream, 3, Len(upstream))
                    ELSE upstream
        https    == IF HasPrefix(http, <<"https:", "/">>)
                       /\ ~HasPrefix(http, <<"https:", "/", "/">>)
                    THEN <<"https:", "/", "/">> \o SubSeq(http, 3, Len(http))
                    ELSE http
    IN  https \o (IF rawQuery # <<>> THEN <<"?">> \o rawQuery ELSE <<>>)

\* Nothing extracted yet.
NotExtracted == [done |-> FALSE, path |-> <<>>, upstream |-> <<>>]

\* fnIn: a text u, whether the request path is "/"+u as written or with the
\* scheme's slashes collapsed, and the raw query.
InitExtract ==
    /\ allowRaw = <<>>
    /\ ssrfOn = FALSE
    /\ dns = <<>>
    /\ EmptyCache
    /\ NoTraffic
    /\ fnIn \in [u : SeqsUpTo(PathLexemes, MaxPathLen), collapsed : BOOLEAN, rawQuery : RawQueries]
    /\ fnOut = NotExtracted

CallExtractUpstreamFromPath ==
    /\ fnOut = NotExtracted
    /\ LET path == <<"/">> \o (IF fnIn.collapsed THEN CollapseScheme(fnIn.u) ELSE fnIn.u)
       IN  fnOut' = [done |-> TRUE, path |-> path,
                     upstream |-> ExtractUpstreamFromPath(path, fnIn.rawQuery)]
    /\ UNCHANGED <<allowRaw, ssrfOn, dns, now, items, order, heap, curSize, req, sent, conns, fnIn>>

NextExtract == CallExtractUpstreamFromPath

SpecExtract == InitExtract /\ [][NextExtract]_vars

-----------------------------------------------------------------------------
(* Allowlist.Allows alone, on every host and configuration. *)

InitAllow ==
    /\ allowRaw \in AllowChoices
    /\ ssrfOn = New(allowRaw).ssrfProtection
    /\ dns \in DNSTables
    /\ fnIn \in ProbeHosts
    /\ fnOut = "none"
    /\ EmptyCache
    /\ NoTraffic

\* One call of Allowlist.Allows on the parsed configuration.
CallAllows ==
    /\ fnOut = "none"
    /\ fnOut' = IF Allows(ParseAllowlist(allowRaw), HostString(fnIn), dns)
                THEN "allow" ELSE "deny"
    /\ UNCHANGED <<allowRaw, ssrfOn, dns, now, items, order, heap, curSize, req, sent, conns, fnIn>>

NextAllow == CallAllows

SpecAllow == InitAllow /\ [][NextAllow]_vars

-----------------------------------------------------------------------------
(* Host names as DNS labels. *)

RECURSIVE Labels(_)
Labels(s) ==
    IF ~ContainsLexeme(s, ".") THEN <<s>>
    ELSE <<SubSeq(s, 1, FirstIndex(s, ".") - 1)>>
            \o Labels(SubSeq(s, FirstIndex(s, ".") + 1, Len(s)))

\* ls is a suffix of hs, label by label.
LabelSuffix(ls, hs) == HasSuffix(hs, ls)

\* What one raw entry admits of a lowercase host name, by whole labels.
EntryAdmits(e, name) ==
    IF HasPrefix(e, <<"*", ".">>)
    THEN /\ LabelSuffix(Labels(ToLower(SubSeq(e, 3, Len(e)))), Labels(ToLower(name)))
         /\ Len(Labels(ToLower(name))) > Len(Labels(ToLower(SubSeq(e, 3, Len(e)))))
    ELSE LabelSuffix(Labels(ToLower(e)), Labels(ToLower(name)))

NameEntriesOnly == \A i \in 1..Len(allowRaw) : ~HasSlash(allowRaw[i])
CIDREntriesOnly == \A i \in 1..Len(allowRaw) : HasSlash(allowRaw[i])

\* C5: with exact and wildcard entries, Allows admits a host name (port
\* ignored, case ignored) exactly when some exact entry's labels are a suffix
\* of the name's labels or some wildcard's labels are a proper suffix of them.
C5_AllowsMatchesWholeLabels ==
    (fnOut # "none" /\ allowRaw # <<>> /\ NameEntriesOnly /\ fnIn.kind = "name") =>
        ((fnOut = "allow") <=>
            \E i \in 1..Len(allowRaw) :
                allowRaw[i] # <<>> /\ EntryAdmits(allowRaw[i], fnIn.text))

\* A subdomain in upper case and with a port is admitted by an exact entry,
\* and a name that merely ends with the entry's characters is not.
C5_Witness ==
    /\ allowRaw = << <<"b">> >>
    /\ fnIn = [kind |-> "name", text |-> <<"a", ".", "B">>, port |-> TRUE]
    /\ fnOut = "allow"

\* C6 as claimed: with CIDR entries only, an IP-literal host is admitted iff
\* its address lies in a configured CIDR, and a host name iff it resolves and
\* one of its addresses lies in a configured CIDR.
C6_CIDRAdmitsLiteralAndResolved ==
    (fnOut # "none" /\ allowRaw # <<>> /\ CIDREntriesOnly) =>
        LET InSomeCIDR(ip) ==
                \E i \in 1..Len(allowRaw) :
                    /\ ParseCIDR(allowRaw[i]).ok
                    /\ CIDRContains(ParseCIDR(allowRaw[i]), ip)
            answer == IF ToLower(fnIn.text) \in DOMAIN dns THEN dns[ToLower(fnIn.text)] ELSE <<>>
        IN  (fnOut = "allow") <=>
                IF fnIn.kind = "name"
                THEN \E k \in 1..Len(answer) : InSomeCIDR(answer[k])
                ELSE InSomeCIDR(IP(fnIn.text[1]))

-----------------------------------------------------------------------------
(* The gates. *)

\* C1: with no allowlist (the dial guard on), every connection the fetch
\* client has open, on the initial request or a redirect hop, goes to the
\* first address of the answer the resolver gave at that dial, and no
\* address of that answer is one the SSRF classifier blocks; whatever the
\* resolver said at the pre-fetch check.
C1_DialGuardNeverReachesBlockedIP ==
    ssrfOn =>
        \A c \in conns :
            /\ ~IsBlockedIP(c.ip)
            /\ c.ip = c.answer[1]
            /\ \A k \in 1..Len(c.answer) : ~IsBlockedIP(c.answer[k])

\* The name passed the pre-fetch check, the resolver's answer then changed to
\* a private address, and the guard refused the dial: no request was sent.
C1_Witness ==
    \E r \in DOMAIN req :
        /\ ssrfOn
        /\ req[r].pc = "fetched"
        /\ req[r].url.host.text = <<"a", ".", "b">>
        /\ req[r].res.words = {"ssrf dial", "blocked IP"}
        /\ req[r].hops = 0
        /\ conns = {}
        /\ dns[<<"a", ".", "b">>] = <<IP("10.0.0.1")>>

\* The address the host of a URL stands for: the literal's, or those the
\* name resolves to.
AddressesOf(h, d) == LookupIP(d, h.text)

\* C2 as claimed: with no allowlist, a request whose upstream host is, or
\* resolves to, a blocked address, in whatever form the URL holds it, leaves
\* the gates answered 403 `blocked`, no upstream request made.
C2_PrivateHostsAnswered403 ==
    [][\A r \in DOMAIN req :
          (/\ req[r].pc = "start"
           /\ req'[r].pc # "start"
           /\ ParseAllowlist(allowRaw).nil
           /\ ParseUpstreamURL(req[r].url).ok
           /\ \E k \in 1..Len(AddressesOf(req[r].url.host, dns)) :
                 IsBlockedIP(AddressesOf(req[r].url.host, dns)[k]))
          => (/\ req'[r].pc = "done"
              /\ req'[r].resp.status = 403
              /\ req'[r].resp.errType = "blocked"
              /\ req'[r].hops = 0
              /\ sent' = {})]_vars

-----------------------------------------------------------------------------
(* The cached fetcher. *)

\* C7: of two consecutive requests for one URL, the first finding nothing
\* cached and rendering a 200 upstream, the second looking the URL up within
\* the TTL of the stored page, the page not being too large to stay cached:
\* the first is answered `miss`, the second `hit`, the upstream got one
\* request in all, and the two bodies are the same.
C7_MissThenHit ==
    \A r \in DOMAIN req :
        (r + 1) \in DOMAIN req =>
            LET a == req[r]
                b == req[r + 1]
            IN  (/\ a.pc = "done" /\ b.pc = "done"
                 /\ a.url = b.url
                 /\ a.got = StatusMiss
                 /\ a.res.kind = "ok" /\ a.res.code = 200 /\ a.resp.status = 200
                 /\ b.getAt <= a.freshAt + CacheTTL
                 /\ PageLen(a.resp.page) <= CacheMaxSize)
                => (/\ a.resp.cache = "miss"
                    /\ b.resp.cache = "hit"
                    /\ b.resp.status = 200
                    /\ a.hops + b.hops = 1
                    /\ b.resp.page = a.resp.page)

\* The second request looked the page up at the last tick of its TTL.
C7_Witness ==
    /\ req[1].pc = "done" /\ req[2].pc = "done"
    /\ req[1].url = req[2].url
    /\ req[1].resp.cache = "miss"
    /\ req[2].resp.cache = "hit"
    /\ req[2].getAt = req[1].freshAt + CacheTTL
    /\ req[2].resp.page = req[1].resp.page
    /\ req[2].resp.page.body = MaxBody

\* Some later request has been made.
Followed(r) == \E o \in DOMAIN req : o > r /\ req[o].pc # "idle"

\* C8: when the conditional fetch for an expired entry returns 304, the
\* request that was sent carried the entry's ETag and Last-Modified, the
\* entry is what is served, with status `revalidated`, its HTML, its size
\* and the cache's total size are as before, its expiry is now + TTL, and a
\* lookup during the TTL is a hit; the response is 200 with the entry's
\* HTML, and a hit contacts no upstream.
C8_RevalidatedOn304 ==
    /\ [][\A r \in DOMAIN req :
            (/\ req[r].pc = "fetched"
             /\ req'[r].pc # "fetched"
             /\ req[r].got = StatusExpired
             /\ req[r].res.kind = "ok"
             /\ req[r].res.code = 304)
            => /\ req[r].url \in DOMAIN items
               /\ LET id    == items[req[r].url]
                      after == [items |-> items', order |-> order', heap |-> heap',
                                curSize |-> curSize']
                  IN  /\ req[r].ref = id
                      /\ req[r].cond = [etag |-> heap[id].etag,
                                        lastModified |-> heap[id].lastModified]
                      /\ req'[r].pc = "serve"
                      /\ req'[r].cs = StatusRevalidated
                      /\ req'[r].ref = id
                      /\ items' = items
                      /\ curSize' = curSize
                      /\ heap'[id].html = heap[id].html
                      /\ heap'[id].size = heap[id].size
                      /\ heap'[id].expiresAt = now + CacheTTL
                      /\ \A t \in now..(now + CacheTTL) :
                            Get(after, req[r].url, t).status = StatusHit]_vars
    /\ [](\A r \in DOMAIN req :
            /\ (req[r].pc = "wait" /\ req[r].got = StatusExpired) =>
                  \A s \in sent : s.req = r => s.cond = req[r].cond
            /\ (req[r].pc = "done" /\ req[r].resp.cache = "revalidated") =>
                  /\ req[r].resp.status = 200
                  /\ req[r].got = StatusExpired
                  /\ req[r].res.code = 304
                  /\ ~Followed(r) =>
                        /\ req[r].url \in DOMAIN items
                        /\ req[r].resp.page = heap[items[req[r].url]].html
                        /\ heap[items[req[r].url]].expiresAt = req[r].freshAt + CacheTTL
            /\ (req[r].pc = "done" /\ req[r].resp.cache = "hit" /\ req[r].got = StatusHit) =>
                  req[r].hops = 0)

\* An expired page with validators was revalidated and served.
C8_Witness ==
    \E r \in DOMAIN req :
        /\ req[r].pc = "done"
        /\ req[r].resp.cache = "revalidated"
        /\ req[r].resp.status = 200
        /\ req[r].url \in DOMAIN items
        /\ heap[items[req[r].url]].etag = "e"
        /\ req[r].resp.page = heap[items[req[r].url]].html
        /\ now = req[r].freshAt + CacheTTL

\* C9: when the fetch for an expired entry fails, with whatever error, no
\* error page is written: the response is 200 with the entry's HTML, and
\* the entry stays in the cache as it was, still expired.
C9_StaleServedOnFetchError ==
    \A r \in DOMAIN req :
        (req[r].pc = "done" /\ req[r].got = StatusExpired /\ req[r].res.kind = "err") =>
            /\ req[r].resp.status = 200
            /\ req[r].resp.errType = ""
            /\ req[r].resp.contentType # "error"
            /\ req[r].resp.page # NoPage
            /\ ~Followed(r) =>
                  /\ req[r].url \in DOMAIN items
                  /\ req[r].resp.page = heap[items[req[r].url]].html
                  /\ heap[items[req[r].url]].expiresAt < req[r].getAt

\* The revalidation of an expired page hit the size cap, and the page was
\* served all the same.
C9_Witness ==
    \E r \in DOMAIN req :
        /\ req[r].pc = "done"
        /\ req[r].got = StatusExpired
        /\ req[r].res.kind = "err"
        /\ req[r].hops = 1
        /\ req[r].resp.status = 200
        /\ req[r].resp.page.body = 1
        /\ req[r].url \in DOMAIN items

\* C10 as claimed: when the revalidation fetch of an expired entry fails, the
\* X-Cooked-Cache header of the response is `stale`.
C10_StaleStatusReported ==
    \A r \in DOMAIN req :
        (req[r].pc = "done" /\ req[r].got = StatusExpired /\ req[r].res.kind = "err") =>
            req[r].resp.cache = "stale"

-----------------------------------------------------------------------------
(* What writes the cache. *)

\* The cache's entries by key, their expiry left out.
Entries == [k \in DOMAIN items |-> [heap[items[k]] EXCEPT !.expiresAt = 0]]

\* The expiry of each entry.
Expiries == [k \in DOMAIN items |-> heap[items[k]].expiresAt]

\* C11: the set of entries and their contents change only in the store at
\* the end of a request whose upstream answered 200 and whose render
\* succeeded, and then under that request's URL with the page it is answered;
\* an expiry changes only there or in the refresh after a 304; a request
\* answered with an error page has stored and refreshed nothing, and one
\* served from cache has stored nothing.
C11_CacheWrittenOnlyAfterRender ==
    /\ [][/\ (Entries' # Entries) =>
                \E r \in DOMAIN req :
                    /\ req[r].pc = "store" /\ req'[r].pc = "done"
                    /\ req[r].res.kind = "ok" /\ req[r].res.code = 200
                    /\ req'[r].resp.status = 200
                    /\ req'[r].resp.page = req[r].page
                    /\ DOMAIN items' \subseteq DOMAIN items \cup {req[r].url}
                    /\ \A k \in DOMAIN items' \ {req[r].url} : Entries'[k] = Entries[k]
                    /\ req[r].url \in DOMAIN items' =>
                          heap'[items'[req[r].url]].html = req[r].page
          /\ (Expiries' # Expiries /\ Entries' = Entries) =>
                \E r \in DOMAIN req :
                    /\ \A k \in DOMAIN items \ {req[r].url} : Expiries'[k] = Expiries[k]
                    /\ \/ req[r].pc = "store"
                       \/ /\ req[r].pc = "fetched" /\ req'[r].pc = "serve"
                          /\ req[r].res.kind = "ok" /\ req[r].res.code = 304]_vars
    /\ [](\A r \in DOMAIN req :
            (req[r].pc = "done" /\ req[r].resp # NoResponse) =>
                /\ req[r].resp.contentType = "error" => req[r].freshAt = -1
                /\ req[r].resp.status # 200 => req[r].resp.contentType = "error"
                /\ req[r].resp.cache = "hit" => req[r].freshAt = -1
                /\ (req[r].freshAt # -1 /\ req[r].resp.cache # "revalidated") =>
                      /\ req[r].resp.status = 200
                      /\ req[r].res.code = 200
                      /\ req[r].resp.cache \in {"miss", "expired"})

\* With a page in the cache, a request for a file of an unsupported type was
\* answered 415 after its upstream answered 200, and the page is still there.
C11_Witness ==
    \E r \in DOMAIN req :
        /\ req[r].pc = "done"
        /\ req[r].resp.status = 415
        /\ req[r].res.code = 200
        /\ req[r].hops = 1
        /\ DOMAIN items # {}

-----------------------------------------------------------------------------
(* The cache's size accounting. *)

\* The sum of the sizes of the entries under the keys ks.
RECURSIVE SumSizes(_)
SumSizes(ks) ==
    IF ks = {} THEN 0
    ELSE LET k == CHOOSE x \in ks : TRUE
         IN  heap[items[k]].size + SumSizes(ks \ {k})

\* C12: between any two operations of the cache, whichever handlers made
\* them and in whatever order, the tracked size is the sum of the sizes of
\* the entries held, and the recency list holds exactly their keys.
C12_SizeIsSumOfEntries ==
    /\ curSize = SumSizes(DOMAIN items)
    /\ {order[i] : i \in 1..Len(order)} = DOMAIN items
    /\ Len(order) = Cardinality(DOMAIN items)

\* Two handlers missed on one URL at once and stored pages of different
\* sizes; the entry was replaced, and the total is the size of the second.
C12_Witness ==
    /\ req[1].pc = "done" /\ req[2].pc = "done"
    /\ req[1].url = req[2].url
    /\ req[1].resp.cache = "miss" /\ req[2].resp.cache = "miss"
    /\ req[1].resp.page.body = 2 /\ req[2].resp.page.body = 1
    /\ req[1].url \in DOMAIN items
    /\ curSize = heap[items[req[1].url]].size
    /\ curSize \in {1, 2}

-----------------------------------------------------------------------------
(* Eviction. *)

\* Where x stands in the sequence s.
Pos(s, x) == CHOOSE i \in 1..Len(s) : s[i] = x

\* C13: a put leaves the total size at most the maximum, whatever the size
\* of the entry put; it removes only keys, and changes no entry it keeps
\* other than the one put; every key it removes was used less recently than
\* every key it keeps, the key put being the most recently used; and it
\* removes no more than it must: putting the last key removed back would
\* exceed the maximum.  The cache's own list is the keys held in order of
\* last use.
C13_PutEvictsLeastRecentlyUsed ==
    /\ [][(fnIn'.op = "put" /\ now' = now) =>
            LET key     == fnIn'.key
                recency == MoveToFront(fnOut.used, key)
                sizeOf(k) == IF k = key THEN fnIn'.size ELSE heap[items[k]].size
                before  == DOMAIN items \cup {key}
                kept    == DOMAIN items'
                removed == before \ kept
            IN  /\ curSize' <= CacheMaxSize
                /\ kept \subseteq before
                /\ \A k \in kept \ {key} : heap'[items'[k]] = heap[items[k]]
                /\ key \in kept => /\ heap'[items'[key]].size = fnIn'.size
                                   /\ heap'[items'[key]].expiresAt = now + CacheTTL
                /\ \A e \in removed : \A k \in kept : Pos(recency, k) < Pos(recency, e)
                /\ removed # {} =>
                      \E m \in removed :
                          /\ \A e \in removed : Pos(recency, m) <= Pos(recency, e)
                          /\ curSize' + sizeOf(m) > CacheMaxSize]_vars
    /\ [](/\ order = fnOut.used
          /\ curSize <= CacheMaxSize)

\* A put has evicted a key stored later than one it kept, the older one
\* having been used in between.
C13_Witness ==
    /\ fnIn.op = "put"
    /\ fnIn.key.ext = "txt"
    /\ DOMAIN items = {k \in LRUKeys : k.ext \in {"md", "txt"}}
    /\ \E k \in DOMAIN items : k.ext = "md" /\ items[k] = 1
    /\ \E k \in DOMAIN items : k.ext = "txt" /\ items[k] = 3
    /\ curSize = CacheMaxSize

-----------------------------------------------------------------------------
(* The size cap of the fetch. *)

\* C14: Fetch returns no result whose body is longer than the maximum, and
\* reads at most one byte more than the maximum; a Content-Length above the
\* maximum is an error with no body byte read; without a Content-Length, more
\* than the maximum arriving is an error; a body of exactly the maximum,
\* announced or not, is returned whole.
C14_BodyNeverOverMaxFileSize ==
    fnOut # NotFetched =>
        /\ fnOut.kind = "ok" => fnOut.body <= MaxFileSize
        /\ fnOut.read <= MaxFileSize + 1
        /\ (fnIn.code # 304 /\ fnIn.contentLength > MaxFileSize) =>
              /\ fnOut.kind = "err"
              /\ "too large" \in fnOut.words
              /\ fnOut.read = 0
        /\ (fnIn.code # 304 /\ fnIn.contentLength = -1 /\ fnIn.sends > MaxFileSize) =>
              /\ fnOut.kind = "err"
              /\ "too large" \in fnOut.words
        /\ (fnIn.code # 304 /\ fnIn.sends = MaxFileSize
               /\ fnIn.contentLength \in {-1, MaxFileSize}) =>
              /\ fnOut.kind = "ok"
              /\ fnOut.body = MaxFileSize
              /\ fnOut.code = fnIn.code

\* A streamed body one byte over the maximum was refused after maximum + 1
\* bytes were read.
C14_Witness ==
    /\ fnOut # NotFetched
    /\ fnIn.contentLength = -1
    /\ fnIn.sends = MaxFileSize + 2
    /\ fnOut.kind = "err"
    /\ fnOut.read = MaxFileSize + 1

-----------------------------------------------------------------------------
(* The redirect limit. *)

\* C15 as claimed: a redirect is refused as one too many only when the chain
\* is longer than 5 hops, that is when it is at least the sixth redirect of
\* its chain (the redirect answering the n-th request sent is the n-th).
C15_FiveRedirectsFollowed ==
    [][\A r \in DOMAIN req :
          (/\ req[r].pc = "wait"
           /\ req'[r].pc = "fetched"
           /\ req'[r].res.kind = "err"
           /\ "too many redirects" \in req'[r].res.words)
          => req[r].hops > maxRedirects]_vars

-----------------------------------------------------------------------------
(* Fetch failures and the status they are answered with. *)

\* What failed, by the words of the failure itself, whatever URL it names.
TimedOut(err) == "timeout" \in err.words \/ "deadline" \in err.words
OverSize(err) == "too large" \in err.words

\* C16 as claimed: on a miss, a failed fetch is answered 504 `timeout` if and
\* only if it timed out, 413 `too-large` if and only if a size cap was
\* exceeded, and 502 `unreachable` otherwise, whatever the URL.
C16_FailureKindAloneDecides ==
    [][\A r \in DOMAIN req :
          (/\ req[r].pc = "fetched"
           /\ req'[r].pc # "fetched"
           /\ req[r].got = StatusMiss
           /\ req[r].res.kind = "err")
          => /\ req'[r].pc = "done"
             /\ req'[r].resp.contentType = "error"
             /\ req'[r].resp.status =
                   (IF TimedOut(req[r].res) THEN 504
                    ELSE IF OverSize(req[r].res) THEN 413 ELSE 502)
             /\ req'[r].resp.errType =
                   (IF TimedOut(req[r].res) THEN "timeout"
                    ELSE IF OverSize(req[r].res) THEN "too-large" ELSE "unreachable")]_vars

\* C17 as claimed: a request whose client disconnected while the fetch was in
\* its dial or waited for the upstream leaves the fetch at that point with a
\* timeout-class error, sends nothing more upstream, and ends as 504.
C17_DisconnectAbortsFetch ==
    [][\A r \in DOMAIN req :
          (/\ req[r].gone # ""
           /\ req[r].pc \in {"send", "wait"}
           /\ req'[r].pc # req[r].pc)
          => /\ req'[r].pc = "fetched"
             /\ req'[r].res.kind = "err"
             /\ isTimeout(req'[r].res)
             /\ req'[r].hops = req[r].hops]_vars

-----------------------------------------------------------------------------
(* Concurrent misses on one URL. *)

\* Every handler has run to its end on URL u, each having found nothing
\* cached and having rendered a 200.
AllMissedOn(u) ==
    \A r \in DOMAIN req :
        /\ req[r].pc = "done"
        /\ req[r].url = u
        /\ req[r].got = StatusMiss
        /\ req[r].resp.status = 200

\* Each of them made its own upstream request and its own put.
EachFetchedAndPut ==
    \A r \in DOMAIN req :
        /\ req[r].hops = 1
        /\ req[r].res.kind = "ok" /\ req[r].res.code = 200
        /\ req[r].freshAt # -1
        /\ req[r].resp.cache = "miss"

\* A put of request r's page has just run: the key holds that page, counted
\* once, if the page is no larger than the maximum, and nothing otherwise.
PutLeavesOwnEntry ==
    [][\A r \in DOMAIN req :
          (req[r].pc = "store" /\ req'[r].pc = "done") =>
              IF PageLen(req[r].page) <= CacheMaxSize
              THEN /\ req[r].url \in DOMAIN items'
                   /\ heap'[items'[req[r].url]].html = req[r].page
                   /\ heap'[items'[req[r].url]].size = PageLen(req[r].page)
                   /\ Len(SelectSeq(order', LAMBDA k : k = req[r].url)) = 1
              ELSE req[r].url \notin DOMAIN items']_vars

\* C18 as claimed: after concurrent misses on one URL, each with its own
\* fetch and put, the cache holds exactly one entry for the key.
C18_ExactlyOneEntryAfterMisses ==
    \A u \in ConcURLs :
        AllMissedOn(u) =>
            /\ EachFetchedAndPut
            /\ DOMAIN items = {u}
            /\ curSize = heap[items[u]].size

\* C18, amended: after concurrent misses on one URL, each handler has made
\* its own fetch and its own put; the cache holds at most one entry, under
\* that key: the page of the put that ran last, its size counted once, when
\* that page is no larger than the maximum, and no entry otherwise.
C18_LastPutWinsIfItFits ==
    /\ PutLeavesOwnEntry
    /\ [](\A u \in ConcURLs :
            AllMissedOn(u) =>
                /\ EachFetchedAndPut
                /\ DOMAIN items \subseteq {u}
                /\ Len(order) = Cardinality(DOMAIN items)
                /\ IF u \in DOMAIN items
                   THEN /\ curSize = heap[items[u]].size
                        /\ \E r \in DOMAIN req :
                              /\ heap[items[u]].html = req[r].resp.page
                              /\ heap[items[u]].size = PageLen(req[r].resp.page)
                              /\ heap[items[u]].expiresAt = req[r].freshAt + CacheTTL
                              /\ \A o \in DOMAIN req : req[o].freshAt <= req[r].freshAt
                   ELSE curSize = 0)

\* Two handlers missed at once; the one that stored later, a tick after the
\* other, left its page, and the other's is gone.
C18_Witness ==
    /\ AllMissedOn([scheme |-> "http",
                    host |-> [kind |-> "name", text |-> <<"b">>, port |-> FALSE],
                    ext |-> "md"])
    /\ req[1].freshAt = req[2].freshAt + 1
    /\ req[1].resp.page.body = 1
    /\ req[2].resp.page.body = 2
    /\ \E k \in DOMAIN items : heap[items[k]].html = req[1].resp.page
    /\ curSize = 1

-----------------------------------------------------------------------------
(* The order of the render pipeline. *)

\* The stages a page of this content type must have gone through.
StagesFor(contentType) ==
    IF contentType \in {"markdown", "mdx"}
    THEN <<"render", "sanitize", "rewrite", "assemble">>
    ELSE <<"render", "assemble">>

\* C19: every page stored, about to be stored or written in a 200 response
\* has gone through render, sanitize, rewrite and assembly in that order if
\* it is markdown or mdx, and through render and assembly alone if it is
\* code or plaintext; none holds HTML of the upstream body that did not pass
\* the sanitizer.
C19_SanitizedBeforeRewriteAndStore ==
    /\ \A k \in DOMAIN items :
          /\ heap[items[k]].html.stages = StagesFor(heap[items[k]].contentType)
          /\ ~heap[items[k]].html.raw
          /\ heap[items[k]].contentType = DetectFile(k.ext)
    /\ \A r \in DOMAIN req :
          /\ req[r].pc = "store" =>
                /\ req[r].page.stages = StagesFor(DetectFile(req[r].url.ext))
                /\ ~req[r].page.raw
          /\ (req[r].pc = "done" /\ req[r].resp.status = 200) =>
                /\ req[r].resp.page.stages = StagesFor(req[r].resp.contentType)
                /\ ~req[r].resp.page.raw
                /\ req[r].resp.contentType = DetectFile(req[r].url.ext)
                /\ req[r].resp.contentType \in {"markdown", "mdx", "code", "plaintext"}

\* An mdx file with raw HTML in it was rendered and stored, and then served
\* from the cache.
C19_Witness ==
    /\ req[1].pc = "done" /\ req[2].pc = "done"
    /\ req[1].url.ext = "mdx" /\ req[2].url.ext = "mdx"
    /\ req[1].res.html
    /\ req[1].resp.cache = "miss"
    /\ req[2].resp.cache = "hit"
    /\ req[2].resp.page.stages = <<"render", "sanitize", "rewrite", "assemble">>
    /\ ~req[2].resp.page.raw

\* The parts of an attribute value: the path ends before the first "?" or
\* "#", the fragment starts at the first "#", the query lies between.
CutAt(v) ==
    IF \E i \in 1..Len(v) : v[i] \in {"?", "#"}
    THEN CHOOSE i \in 1..Len(v) : v[i] \in {"?", "#"} /\ \A j \in 1..(i - 1) : v[j] \notin {"?", "#"}
    ELSE Len(v) + 1
PathOf(v)     == SubSeq(v, 1, CutAt(v) - 1)
FragmentOf(v) == IF ContainsLexeme(v, "#") THEN SubSeq(v, Index(v, "#"), Len(v)) ELSE <<>>
QueryOf(v)    == SubSeq(v, CutAt(v), Len(v) - Len(FragmentOf(v)))

\* Absolute, fragment-only, mailto: or data:
UnchangedKind(v) ==
    \/ v[1] \in {"#", "mailto:", "data:"}
    \/ Len(v) >= 2 /\ v[1] = "/" /\ v[2] = "/"
    \/ Len(v) >= 3 /\ v[1] \in {"http:", "https:"} /\ v[2] = "/" /\ v[3] = "/"

\* The path's last element ends in .md or .mdx
MarkdownLike(p) ==
    \E i \in 1..Len(p) :
        /\ p[i] = "."
        /\ \A j \in (i + 1)..Len(p) : p[j] \notin {".", "/"}
        /\ SubSeq(p, i + 1, Len(p)) \in {<<"md">>, <<"md", "x">>}

\* The upstream URL with its file name stripped, without the last slash
Directory(u) ==
    u.origin \o (IF LastIndex(u.path, "/") > 1 THEN SubSeq(u.path, 1, LastIndex(u.path, "/") - 1) ELSE <<>>)

\* "/" or "<base-url>/"
ProxyPrefix(b, p) ==
    IF ~MarkdownLike(p) THEN <<>>
    ELSE IF b = <<>> THEN <<"/">>
    ELSE IF b[Len(b)] = "/" THEN b
    ELSE b \o <<"/">>

\* directory + "/" + path, the path taken without one leading "./"; the
\* path alone where it holds "://"
Target(u, p) ==
    LET q == IF Len(p) >= 2 /\ p[1] = "." /\ p[2] = "/" THEN SubSeq(p, 3, Len(p)) ELSE p
    IN  IF \E i \in 1..(Len(q) - 2) : q[i] \in SchemeLexemes /\ q[i + 1] = "/" /\ q[i + 2] = "/"
        THEN q
        ELSE Directory(u) \o <<"/">> \o q

\* C20 as stated: RelativeURLs leaves a value unchanged when it is absolute,
\* fragment-only, mailto: or data:, and rewrites every other value to
\* [proxy prefix iff the path is markdown-like] + upstream directory + "/" +
\* path + query + fragment.
C20_EveryOtherValueJoinedToDirectory ==
    fnOut.done =>
        \A i \in 1..Len(fnIn.html) :
            LET v == fnIn.html[i]
            IN  fnOut.html[i] =
                    IF UnchangedKind(v) THEN v
                    ELSE ProxyPrefix(fnIn.baseURL, PathOf(v)) \o Directory(fnIn.upstreamURL)
                         \o <<"/">> \o PathOf(v) \o QueryOf(v) \o FragmentOf(v)

\* C20 (amended): RelativeURLs leaves a value unchanged when it is absolute,
\* fragment-only, mailto: or data:, or when nothing precedes its query; it
\* rewrites every other value to [proxy prefix iff the path is markdown-like] +
\* target + query + fragment, the target being the path without one leading
\* "./", joined to upstream directory + "/" unless it holds "://".  Input whose
\* values are all of the unchanged kinds comes back as it was.
C20_RewrittenOrLeftAlone ==
    fnOut.done =>
        /\ Len(fnOut.html) = Len(fnIn.html)
        /\ \A i \in 1..Len(fnIn.html) :
               LET v == fnIn.html[i]
               IN  fnOut.html[i] =
                       IF UnchangedKind(v) \/ PathOf(v) = <<>> THEN v
                       ELSE ProxyPrefix(fnIn.baseURL, PathOf(v)) \o Target(fnIn.upstreamURL, PathOf(v))
                            \o QueryOf(v) \o FragmentOf(v)
        /\ (\A i \in 1..Len(fnIn.html) : UnchangedKind(fnIn.html[i])) => fnOut.html = fnIn.html

\* ./.md under http://h/d/f.md becomes /http://h/d/.md, and #?x stays
C20_Witness ==
    /\ fnOut.done
    /\ fnIn.upstreamURL.path = <<"/", "d", "/", "f", ".", "md">>
    /\ fnIn.baseURL = <<>>
    /\ fnIn.html = <<<<".", "/", ".", "md">>>>
    /\ fnOut.html = <<<<"/", "http:", "/", "/", "h", "/", "d", "/", ".", "md">>>>

\* The status code each kind of error page stands for.
ErrorStatus(q) ==
    CASE q.resp.errType = "bad-request"    -> 400
      [] q.resp.errType = "blocked"        -> 403
      [] q.resp.errType = "unreachable"    -> 502
      [] q.resp.errType = "timeout"        -> 504
      [] q.resp.errType = "too-large"      -> 413
      [] q.resp.errType = "unsupported"    -> 415
      [] q.resp.errType = "render-error"   -> 500
      [] q.resp.errType = "upstream-error" -> q.res.code
      [] OTHER                             -> 0

\* The responses written: a finished request still remembered.
Answered(r) == req[r].pc = "done" /\ req[r].resp # NoResponse

\* C21: every response of the render route, rendered, served from the cache
\* or an error page, carries the three security headers and the seven
\* X-Cooked-* headers; an error page has X-Cooked-Content-Type: error and
\* the status of its error.
C21_EveryResponseCarriesHeaders ==
    \A r \in DOMAIN req :
        /\ req[r].resp # NoResponse =>
               /\ SecurityHeaders \subseteq req[r].resp.headers
               /\ CookedHeaders \subseteq req[r].resp.headers
               /\ Cardinality(CookedHeaders) = 7
        /\ Answered(r) =>
               /\ req[r].resp.status # 200 <=> req[r].resp.errType # ""
               /\ req[r].resp.errType # "" =>
                      /\ req[r].resp.contentType = "error"
                      /\ req[r].resp.status = ErrorStatus(req[r])

\* A page served from the cache, then an error page for what the upstream
\* answered 404
C21_Witness ==
    /\ Answered(2) /\ Answered(3)
    /\ req[2].resp.cache = "hit"
    /\ req[2].resp.status = 200
    /\ req[3].resp.errType = "upstream-error"
    /\ req[3].resp.status = 404
    /\ req[3].resp.headers = SecurityHeaders \cup CookedHeaders

\* C22: the X-Cooked-Upstream header never reveals the userinfo, query or
\* fragment of the upstream URL: two requests whose upstream URLs differ only
\* in those parts receive the same value.
C22_SameHeaderWhateverTheSecrets ==
    (fnOut.done /\ fnIn.a.host = fnIn.b.host /\ fnIn.a.path = fnIn.b.path)
        => fnOut.a = fnOut.b

\* What does hold: the header has no lexeme of a userinfo, a query or a
\* fragment but a lone "?", and URLs that parse and differ only in those
\* parts, none of them ending its query-less text in "?", get one value.
RedactedHoldsNoSecret ==
    fnOut.done =>
        /\ \A i \in 1..Len(fnOut.a) : fnOut.a[i] \notin {"u", "s", "t", " ", "@", "#", ":"}
        /\ ( /\ fnIn.a.host = fnIn.b.host /\ fnIn.a.path = fnIn.b.path
             /\ ~ContainsLexeme(fnIn.a.user, " ") /\ ~ContainsLexeme(fnIn.b.user, " ")
             /\ fnIn.a.query # <<"?">> /\ fnIn.b.query # <<"?">> )
           => fnOut.a = fnOut.b

\* An upstream URL with scheme http or https: the text starts with http://
\* or https://
HasHTTPScheme(u) ==
    Len(u) >= 3 /\ u[1] \in {"http:", "https:"} /\ u[2] = "/" /\ u[3] = "/"

\* The upstream URL u with the raw query q
WithQuery(u, q) == IF q = <<>> THEN u ELSE u \o <<"?">> \o q

Without(s, x) ==
    LET other(k) == k # x
    IN  SelectSeq(s, other)

\* C24: a get is classified by key and clock only: an absent key gives miss
\* and no entry; a present one gives expired iff the clock is after its
\* expiry, hit otherwise (also at the expiry itself), and the entry is
\* returned in both cases; a hit moves the key to most recently used, and no
\* get changes anything else: an expired entry stays, in its place.
C24_GetClassifiesByKeyAndClock ==
    [][(fnIn'.op = "get" /\ now' = now) =>
          LET key == fnIn'.key
          IN  /\ items' = items /\ heap' = heap /\ curSize' = curSize
              /\ key \notin DOMAIN items =>
                     /\ fnOut'.status = StatusMiss
                     /\ fnOut'.id = 0
                     /\ order' = order
              /\ key \in DOMAIN items =>
                     /\ fnOut'.id = items[key]
                     /\ fnOut'.status = IF now > heap[items[key]].expiresAt
                                        THEN StatusExpired ELSE StatusHit
                     /\ fnOut'.status = StatusHit =>
                            /\ order'[1] = key
                            /\ Without(order', key) = Without(order, key)
                            /\ Len(order') = Len(order)
                     /\ fnOut'.status = StatusExpired => order' = order]_vars

\* A get at exactly put-time + TTL is a hit that moved its key to the front;
\* another key, put later, is behind it.
C24_Witness ==
    /\ fnIn.op = "get"
    /\ fnOut.status = StatusHit
    /\ now > 0
    /\ heap[fnOut.id].expiresAt = now
    /\ Len(order) = 2
    /\ order[1] = fnIn.key
    /\ items[order[2]] > fnOut.id

\* What the gates make of upstream URL u under resolver answers d, in their
\* order: validation, allowlist, and without an allowlist the addresses of
\* the host.  0 stands for a request let through.
GateVerdict(u, d) ==
    IF u.scheme \notin {"http", "https"} \/ u.host.text = <<>> THEN 400
    ELSE IF allowRaw # <<>> /\ ~Allows(ParseAllowlist(allowRaw), HostString(u.host), d) THEN 403
    ELSE IF allowRaw = <<>> /\ AddressesOf(u.host, d) = <<>> THEN 502
    ELSE IF allowRaw = <<>> /\ \E k \in 1..Len(AddressesOf(u.host, d)) :
                                   IsBlockedIP(AddressesOf(u.host, d)[k]) THEN 403
    ELSE 0

\* C25: a request leaves the gates either let through or answered 400 (URL
\* not valid), 403 (allowlist), 502 (no allowlist, resolution fails) or 403
\* (no allowlist, a blocked address), the first that applies in this order;
\* a request answered by a gate has made no cache lookup, no upstream request
\* and no cache write, and leaves the cache as it was, with or without an
\* entry for its URL.
C25_GatesBeforeCacheAndNetwork ==
    [][\A r \in DOMAIN req :
          (req[r].pc = "start" /\ req'[r].pc # "start") =>
              LET verdict == GateVerdict(req[r].url, dns)
              IN  /\ verdict = 0 => req'[r].pc = "get"
                  /\ verdict # 0 =>
                         /\ req'[r].pc = "done"
                         /\ req'[r].resp.status = verdict
                         /\ req'[r].resp.errType =
                                (CASE verdict = 400 -> "bad-request"
                                   [] verdict = 403 -> "blocked"
                                   [] verdict = 502 -> "unreachable")
                         /\ req'[r].got = "" /\ req'[r].getAt = -1
                         /\ req'[r].hops = 0 /\ req'[r].freshAt = -1
                         /\ sent' = sent /\ conns' = conns
                         /\ items' = items /\ order' = order
                         /\ heap' = heap /\ curSize' = curSize]_vars

\* A request for a URL the cache holds, refused by the allowlist after the
\* resolver's answer changed: the entry is still there.
C25_Witness ==
    /\ allowRaw # <<>>
    /\ \E r \in DOMAIN req :
           /\ req[r].pc = "done"
           /\ req[r].resp.status = 403
           /\ req[r].getAt = -1
           /\ req[r].url \in DOMAIN items
           /\ order = <<req[r].url>>

\* Request r found an expired entry and its fetch returned 200.
FreshOnExpired(q) == q.got = StatusExpired /\ q.res.kind = "ok" /\ q.res.code = 200

\* The handler of r goes from the fetch to the store with the new body
\* rendered, holding no entry, the cache untouched.
RendersNewBody(r) ==
    /\ req'[r].pc = "store"
    /\ req'[r].cs = StatusExpired
    /\ req'[r].ref = 0
    /\ req'[r].page.body = req[r].res.body
    /\ req'[r].page.cacheStatus = StatusExpired
    /\ items' = items /\ heap' = heap /\ curSize' = curSize

\* The store of r answers 200 `expired` with the page it rendered.
AnswersNewPage(r) ==
    /\ req'[r].pc = "done"
    /\ req'[r].resp.status = 200
    /\ req'[r].resp.cache = StatusExpired
    /\ req'[r].resp.page = req[r].page

\* The key of r holds the page r rendered, expiring a TTL from now.
HoldsNewPage(r) ==
    /\ req[r].url \in DOMAIN items'
    /\ heap'[items'[req[r].url]].html = req[r].page
    /\ heap'[items'[req[r].url]].expiresAt = now + CacheTTL

\* The request after r, for the same URL, looked the cache up within the TTL
\* of r's put.
NextWithinTTL(r) ==
    /\ r + 1 \in DOMAIN req
    /\ req[r].pc = "done" /\ FreshOnExpired(req[r]) /\ req[r].resp.status = 200
    /\ req[r + 1].url = req[r].url
    /\ req[r + 1].getAt >= req[r].freshAt
    /\ req[r + 1].getAt <= req[r].freshAt + CacheTTL

\* It was a hit, answered with the page r rendered, no upstream request made.
NextIsHit(r) ==
    /\ req[r + 1].got = StatusHit
    /\ req[r + 1].hops = 0
    /\ req[r + 1].pc = "done" =>
           /\ req[r + 1].resp.status = 200
           /\ req[r + 1].resp.cache = StatusHit
           /\ req[r + 1].resp.page = req[r].resp.page

\* The handler of r fails to render the new body: 500, the cache untouched.
FailsToRender(r) ==
    /\ req'[r].pc = "done"
    /\ req'[r].resp.status = 500
    /\ req'[r].resp.errType = "render-error"
    /\ items' = items /\ heap' = heap /\ curSize' = curSize

\* C26 as stated: on an expired entry and a fresh 200 the old entry is not
\* served: the new body is rendered and answered with status `expired`, the
\* put replaces the old entry with one expiring at now+TTL, and the next
\* request within the TTL is a hit returning the new page.
C26_FreshContentReplacesExpired ==
    /\ [][\A r \in DOMAIN req :
             /\ (req[r].pc = "fetched" /\ FreshOnExpired(req[r]) /\ req'[r].pc # "fetched")
                    => (RendersNewBody(r) \/ FailsToRender(r))
             /\ (req[r].pc = "store" /\ FreshOnExpired(req[r]) /\ req'[r].pc # "store")
                    => (AnswersNewPage(r) /\ HoldsNewPage(r))]_vars
    /\ [](\A r \in DOMAIN req : NextWithinTTL(r) => NextIsHit(r))

\* C26 (amended): the same when the new page is no larger than the cache's
\* maximum size.  A larger page is answered all the same, but the put leaves
\* no entry for the key, and the next request is a miss.
C26_FreshContentReplacesExpiredIfItFits ==
    /\ [][\A r \in DOMAIN req :
             /\ (req[r].pc = "fetched" /\ FreshOnExpired(req[r]) /\ req'[r].pc # "fetched")
                    => (RendersNewBody(r) \/ FailsToRender(r))
             /\ (req[r].pc = "store" /\ FreshOnExpired(req[r]) /\ req'[r].pc # "store")
                    => /\ AnswersNewPage(r)
                       /\ IF PageLen(req[r].page) <= CacheMaxSize
                          THEN HoldsNewPage(r)
                          ELSE req[r].url \notin DOMAIN items']_vars
    /\ [](\A r \in DOMAIN req :
             NextWithinTTL(r) =>
                 IF PageLen(req[r].resp.page) <= CacheMaxSize
                 THEN NextIsHit(r)
                 ELSE req[r + 1].got = StatusMiss)

\* A page cached, expired, fetched anew with another body and stored; the
\* request after it, within the TTL, served the new page from the cache.
C26_Witness ==
    /\ req[2].pc = "done" /\ req[3].pc = "done"
    /\ FreshOnExpired(req[2])
    /\ req[2].resp.cache = StatusExpired
    /\ req[2].resp.page.body = 2
    /\ req[3].got = StatusHit
    /\ req[3].getAt > req[2].freshAt
    /\ req[3].resp.page.body = 2
    /\ heap[items[req[3].url]].expiresAt = req[2].freshAt + CacheTTL

\* Request r found an expired entry and its revalidation returned a status
\* that is neither 304 nor 200.
FailedRevalidation(q) ==
    q.got = StatusExpired /\ q.res.kind = "ok" /\ q.res.code \notin {304, 200}

\* C28: when a request finds an expired entry and the revalidation returns a
\* status that is neither 304 nor 200, the response is an upstream-error page
\* echoing that status and the cache is left as it was, the entry present
\* with its old page and old expiry; the next request for the URL finds it
\* expired and revalidates again, with the entry's validators.
C28_FailedRevalidationLeavesEntry ==
    /\ [][\A r \in DOMAIN req :
             (req[r].pc = "fetched" /\ FailedRevalidation(req[r]) /\ req'[r].pc # "fetched")
                 => /\ req'[r].pc = "done"
                    /\ req'[r].resp.status = req[r].res.code
                    /\ req'[r].resp.upstreamStatus = req[r].res.code
                    /\ req'[r].resp.errType = "upstream-error"
                    /\ req[r].url \in DOMAIN items
                    /\ items' = items /\ heap' = heap
                    /\ order' = order /\ curSize' = curSize]_vars
    /\ [](\A r \in DOMAIN req :
             (/\ r + 1 \in DOMAIN req
              /\ req[r].pc = "done" /\ FailedRevalidation(req[r])
              /\ req[r + 1].url = req[r].url
              /\ req[r + 1].getAt >= req[r].getAt)
                 => /\ req[r + 1].got = StatusExpired
                    /\ req[r + 1].pc \in {"send", "wait"} =>
                           req[r + 1].cond =
                               [etag |-> heap[items[req[r].url]].etag,
                                lastModified |-> heap[items[req[r].url]].lastModified])

\* An entry with a validator expired, its revalidation answered 404, and the
\* request after it has sent a conditional request again, the entry as old
\* as before.
C28_Witness ==
    /\ req[2].pc = "done" /\ FailedRevalidation(req[2])
    /\ req[2].resp.status = 404
    /\ req[2].resp.errType = "upstream-error"
    /\ req[3].pc = "wait" /\ req[3].got = StatusExpired
    /\ req[3].cond.etag # ""
    /\ req[3].url \in DOMAIN items
    /\ heap[items[req[3].url]].expiresAt < req[2].getAt

\* C29: in every 200 response of the render route the data-cache-status
\* attribute of the page equals the X-Cooked-Cache header, pages served from
\* the cache included.
C29_AttributeEqualsHeader ==
    \A r \in DOMAIN req :
        (req[r].pc = "done" /\ req[r].resp.status = 200)
            => req[r].resp.page.cacheStatus = req[r].resp.cache

\* What holds instead: the attribute is the cache status of the request that
\* rendered the page, which is `miss` or `expired`, and equals the header
\* exactly in the responses that were not served from the cache.
AttributeIsStatusOfRendering ==
    \A r \in DOMAIN req :
        (req[r].pc = "done" /\ req[r].resp.status = 200)
            => /\ req[r].resp.page.cacheStatus \in {StatusMiss, StatusExpired}
               /\ req[r].resp.cache \in {StatusMiss, StatusExpired}
                      <=> req[r].resp.page.cacheStatus = req[r].resp.cache

\* What a response served from the cache is made of.
Content(e) ==
    [html |-> e.html, contentType |-> e.contentType,
     etag |-> e.etag, lastModified |-> e.lastModified]

\* C27: the entry Cache.Get handed to a request is not modified while the
\* request is serving it: between the request's receiving it for serving,
\* its reading the content type and its reading the HTML, no put writes to
\* that entry, so the response is the content of one single put.
C27_EntryInUseIsNotModified ==
    [][\A r \in DOMAIN req :
          (req[r].pc \in {"serve", "write"} /\ req'[r].pc \in {"serve", "write"})
              => Content(heap'[req[r].ref]) = Content(heap[req[r].ref])]_vars

\* Host is a name that no exact entry and no wildcard entry of allowlist a
\* matches: the gate can have admitted it through a CIDR entry only.
OnlyCIDRAdmits(a, host) ==
    LET hostname == ToLower(StripPort(host))
    IN  /\ ~a.nil
        /\ ParseIP(hostname) = NoIP
        /\ ~\E i \in 1..Len(a.exact) :
               hostname = a.exact[i] \/ HasSuffix(hostname, <<".">> \o a.exact[i])
        /\ ~\E i \in 1..Len(a.wildcards) :
               /\ HasSuffix(hostname, a.wildcards[i])
               /\ hostname # SubSeq(a.wildcards[i], 2, Len(a.wildcards[i]))

\* The address lies in a CIDR of allowlist a.
InsideCIDR(a, ip) == \E i \in 1..Len(a.cidrs) : CIDRContains(a.cidrs[i], ip)

\* C30: when a hostname was admitted through a CIDR entry only, the
\* connection the fetch client opens for it goes to an address inside a
\* configured CIDR, whether the name has several addresses or its answer
\* changed between the allowlist check and the dial.
C30_CIDRAdmittedDialsInsideCIDR ==
    \A c \in conns :
        (/\ req[c.req].pc = "wait"
         /\ OnlyCIDRAdmits(New(allowRaw).allowlist, req[c.req].target.host))
            => InsideCIDR(New(allowRaw).allowlist, c.ip)

=============================================================================
